---- MODULE Spec2Model ----
(***************************************************************************)
(* itack: a git-backed issue store with an SQLite claim ledger.            *)
(*                                                                         *)
(* The model has three layers, each translated from the source:            *)
(*   - the record codec (storage/markdown.rs, core/issue.rs),              *)
(*   - the object-store writer and branch merge (core/git.rs),             *)
(*   - the claim ledger (storage/db.rs) and the commands that drive it     *)
(*     (commands/create.rs, claim.rs, release.rs, done.rs, init.rs).       *)
(*                                                                         *)
(* Text is a sequence of one-character strings.  A file's bytes are a      *)
(* record [yaml, text]: the mapping between the two front matter           *)
(* delimiters and everything after the closing delimiter line.             *)
(***************************************************************************)
EXTENDS Integers, Sequences, FiniteSets, TLC

(***************************************************************************)
(* Bounds of the model.                                                    *)
(***************************************************************************)
\* identifiers the counter may hand out before allocation is cut off
MaxIssues == 2
\* commits the object store may hold before commands stop being started
MaxCommits == 3
\* readings of the wall clock (Utc::now) before commands stop being started
MaxClock == 3
\* the commits a repository holds when the writer and the merge are called
\* directly: enough for two branches to diverge from a common commit and merge
MaxGitCommits == 4

(***************************************************************************)
(* Program constants.                                                      *)
(***************************************************************************)
SCHEMA_VERSION == 1

None == "none"
NL == "\n"

Procs == {1, 2}
DataBranch == "data/itack"
MainBranch == "main"
Branches == {DataBranch, MainBranch}

(***************************************************************************)
(* Text helpers.                                                           *)
(***************************************************************************)
RECURSIVE TrimStartNL(_)
\* str::trim_start_matches('\n')
TrimStartNL(s) ==
    IF s # <<>> /\ Head(s) = NL THEN TrimStartNL(Tail(s)) ELSE s

RECURSIVE FindNL(_, _)
\* str::find('\n') from position i (1-based); Len(s) + 1 when there is none
FindNL(s, i) ==
    IF i > Len(s) THEN Len(s) + 1
    ELSE IF s[i] = NL THEN i ELSE FindNL(s, i + 1)

\* str::ends_with
EndsWith(s, suffix) ==
    /\ Len(s) >= Len(suffix)
    /\ SubSeq(s, Len(s) - Len(suffix) + 1, Len(s)) = suffix

\* str::starts_with
StartsWith(s, prefix) ==
    /\ Len(s) >= Len(prefix)
    /\ SubSeq(s, 1, Len(prefix)) = prefix

(***************************************************************************)
(* core/status.rs and core/issue.rs                                        *)
(***************************************************************************)
Status == {"open", "in-progress", "done", "wontfix"}

\* Issue::new followed by Issue::with_epic
IssueWithEpic(id, epic, now) ==
    [assignee |-> None, branch |-> None, created |-> now, depends_on |-> <<>>,
     epic |-> epic, id |-> id, session |-> None, status |-> "open"]

\* placeholder where no issue was decoded
NoIssue == IssueWithEpic(0, None, 0)

RequiredKeys == {"created", "id", "status"}
OptionKeys == {"assignee", "branch", "epic", "session"}

\* serde_yaml::to_string(issue): optional fields are skipped when None / empty
SerializeIssue(issue) ==
    LET keys == RequiredKeys
                \cup {k \in OptionKeys : issue[k] # None}
                \cup (IF issue.depends_on # <<>> THEN {"depends_on"} ELSE {})
    IN  [k \in keys |-> issue[k]]

\* a document serde_yaml::from_str accepts as an Issue
YamlIsIssue(yaml) == RequiredKeys \subseteq DOMAIN yaml

\* serde_yaml::from_str: absent optional fields take their defaults
DeserializeIssue(yaml) ==
    [assignee   |-> IF "assignee" \in DOMAIN yaml THEN yaml["assignee"] ELSE None,
     branch     |-> IF "branch" \in DOMAIN yaml THEN yaml["branch"] ELSE None,
     created    |-> yaml["created"],
     depends_on |-> IF "depends_on" \in DOMAIN yaml THEN yaml["depends_on"] ELSE <<>>,
     epic       |-> IF "epic" \in DOMAIN yaml THEN yaml["epic"] ELSE None,
     id         |-> yaml["id"],
     session    |-> IF "session" \in DOMAIN yaml THEN yaml["session"] ELSE None,
     status     |-> yaml["status"]]

(***************************************************************************)
(* storage/markdown.rs                                                     *)
(***************************************************************************)
\* a file with no front matter at all
NoFrontMatter == [nofm |-> TRUE]
NoContent == [yaml |-> NoFrontMatter, text |-> <<>>]
ReadmeContent == [yaml |-> NoFrontMatter, text |-> <<"r">>]

HeadingPrefix == <<"#", " ">>

\* format_issue
format_issue(issue, title, body) ==
    [yaml |-> SerializeIssue(issue),
     text |-> <<NL>> \o HeadingPrefix \o title \o <<NL>>
              \o (IF body # <<>>
                  THEN <<NL>> \o body
                       \o (IF body[Len(body)] # NL THEN <<NL>> ELSE <<>>)
                  ELSE <<>>)]

\* extract_title_heading: [ok, title, body]
extract_title_heading(body) ==
    IF StartsWith(body, HeadingPrefix)
    THEN LET rest == SubSeq(body, 3, Len(body))
             pos  == FindNL(rest, 1)
         IN  [ok |-> TRUE,
              title |-> SubSeq(rest, 1, pos - 1),
              body |-> TrimStartNL(SubSeq(rest, pos, Len(rest)))]
    ELSE [ok |-> FALSE, title |-> <<>>, body |-> <<>>]

\* a text that has the front matter delimiter "---" in it
Dashed == "a---b"

\* after_first.find("---") stops inside the YAML: a text field holds the
\* delimiter.  yaml_content then ends in that field, before status, the
\* last key serialized, and serde_yaml::from_str fails on the rest
DelimiterInYaml(yaml) ==
    \E k \in DOMAIN yaml \cap OptionKeys : yaml[k] = Dashed

\* parse_issue: [ok, issue, title, body]; ok = FALSE is InvalidMarkdown / Yaml
parse_issue(content) ==
    LET bad == [ok |-> FALSE, issue |-> NoIssue, title |-> <<>>, body |-> <<>>]
    IN  IF ~YamlIsIssue(content.yaml) \/ DelimiterInYaml(content.yaml) THEN bad
        ELSE LET h == extract_title_heading(TrimStartNL(content.text))
             IN  IF ~h.ok THEN bad
                 ELSE [ok |-> TRUE, issue |-> DeserializeIssue(content.yaml),
                       title |-> h.title, body |-> h.body]

(***************************************************************************)
(* core/git.rs: trees, commits and references.                             *)
(*                                                                         *)
(* A tree is a function from entry names to entries; an entry is a blob    *)
(* (the file's bytes) or a tree.  Objects are content addressed, so an     *)
(* object's identity is its value.  A commit is its position in the        *)
(* repository's commit list; a reference holds a position, 0 when the     *)
(* branch does not exist.                                                  *)
(***************************************************************************)
EmptyTree == <<>>
Blob(content) == [kind |-> "blob", obj |-> content]
Tree(t) == [kind |-> "tree", obj |-> t]
NoEntry == [kind |-> "none", obj |-> <<>>]

ItackDir == <<".itack">>

\* the day of a timestamp: created.format("%Y-%m-%d"), two clock readings a day
DateOf(t) == t \div 2

\* format!("-issue-{:03}.md", id), the id's digits kept as the number
IssueSuffix(id) == <<"-issue-", id, ".md">>

\* Project::issue_relative_path: .itack/<date>-issue-<id:03>.md
issue_relative_path(id, created) ==
    <<ItackDir, <<DateOf(created)>> \o IssueSuffix(id)>>

\* the order git keeps a tree's entries in (by name): ".itack" before the
\* dated files, those by date and then by id
NameLeq(a, b) ==
    IF Len(a) # Len(b) THEN Len(a) < Len(b)
    ELSE IF Len(a) = 4 THEN a[1] < b[1] \/ (a[1] = b[1] /\ a[3] <= b[3])
    ELSE TRUE

RECURSIVE build_nested_tree_fresh(_, _, _)
\* faulty variant: a directory on the path is built from nothing, the
\* entries it had are dropped
build_nested_tree_fresh(builder, path, blob) ==
    IF Len(path) = 1
    THEN [n \in DOMAIN builder \cup {path[1]} |->
             IF n = path[1] THEN Blob(blob) ELSE builder[n]]
    ELSE LET dir == path[1]
             sub == build_nested_tree_fresh(EmptyTree, Tail(path), blob)
         IN  [n \in DOMAIN builder \cup {dir} |->
                 IF n = dir THEN Tree(sub) ELSE builder[n]]

RECURSIVE build_nested_tree(_, _, _)
\* build_nested_tree: the builder's tree with the blob put at path
build_nested_tree(builder, path, blob) ==
    IF Len(path) = 1
    THEN [n \in DOMAIN builder \cup {path[1]} |->
             IF n = path[1] THEN Blob(blob) ELSE builder[n]]
    ELSE LET dir == path[1]
             existing == IF dir \in DOMAIN builder /\ builder[dir].kind = "tree"
                         THEN builder[dir].obj ELSE EmptyTree
             sub == build_nested_tree(existing, Tail(path), blob)
         IN  [n \in DOMAIN builder \cup {dir} |->
                 IF n = dir THEN Tree(sub) ELSE builder[n]]

RECURSIVE TreeGetPath(_, _)
\* Tree::get_path: the entry at path, or NoEntry
TreeGetPath(tree, path) ==
    IF path = <<>> \/ path[1] \notin DOMAIN tree THEN NoEntry
    ELSE IF Len(path) = 1 THEN tree[path[1]]
    ELSE IF tree[path[1]].kind = "tree"
         THEN TreeGetPath(tree[path[1]].obj, Tail(path))
         ELSE NoEntry

NoRepo == [commits |-> <<>>, refs |-> [b \in Branches |-> 0]]

TipTree(repo, branch) ==
    IF repo.refs[branch] = 0 THEN EmptyTree
    ELSE repo.commits[repo.refs[branch]].tree

\* faulty variant: the comparison with the parent's tree is left out
commit_to_branch_always(repo, branch, path, content) ==
    LET parent   == repo.refs[branch]
        new_tree == build_nested_tree(TipTree(repo, branch), path, content)
        oid == Len(repo.commits) + 1
    IN  [repo |-> [commits |-> Append(repo.commits,
                       [tree |-> new_tree,
                        parents |-> IF parent # 0 THEN <<parent>> ELSE <<>>]),
                   refs |-> [repo.refs EXCEPT ![branch] = oid]],
         oid |-> oid]

\* faulty variant: every commit is made parentless, the previous tip dropped
commit_to_branch_orphan(repo, branch, path, content) ==
    LET parent   == repo.refs[branch]
        new_tree == build_nested_tree(TipTree(repo, branch), path, content)
        oid == Len(repo.commits) + 1
    IN  IF parent # 0 /\ repo.commits[parent].tree = new_tree
        THEN [repo |-> repo, oid |-> 0]
        ELSE [repo |-> [commits |-> Append(repo.commits,
                            [tree |-> new_tree, parents |-> <<>>]),
                        refs |-> [repo.refs EXCEPT ![branch] = oid]],
              oid |-> oid]

\* faulty variant: the new commit becomes the tip of every branch
commit_to_branch_allrefs(repo, branch, path, content) ==
    LET parent   == repo.refs[branch]
        new_tree == build_nested_tree(TipTree(repo, branch), path, content)
        oid == Len(repo.commits) + 1
    IN  IF parent # 0 /\ repo.commits[parent].tree = new_tree
        THEN [repo |-> repo, oid |-> 0]
        ELSE [repo |-> [commits |-> Append(repo.commits,
                            [tree |-> new_tree,
                             parents |-> IF parent # 0 THEN <<parent>> ELSE <<>>]),
                        refs |-> [b \in Branches |-> oid]],
              oid |-> oid]

\* commit_to_branch: [repo, oid]; oid = 0 is Ok(None), no commit created
commit_to_branch(repo, branch, path, content) ==
    LET parent   == repo.refs[branch]
        new_tree == build_nested_tree(TipTree(repo, branch), path, content)
        oid == Len(repo.commits) + 1
    IN  IF parent # 0 /\ repo.commits[parent].tree = new_tree
        THEN [repo |-> repo, oid |-> 0]
        ELSE [repo |-> [commits |-> Append(repo.commits,
                            [tree |-> new_tree,
                             parents |-> IF parent # 0 THEN <<parent>> ELSE <<>>]),
                        refs |-> [repo.refs EXCEPT ![branch] = oid]],
              oid |-> oid]

RECURSIVE Ancestors(_, _)
\* the commits reachable from c through parents, c excluded
Ancestors(repo, c) ==
    LET ps == {repo.commits[c].parents[i] : i \in DOMAIN repo.commits[c].parents}
    IN  ps \cup UNION {Ancestors(repo, q) : q \in ps}

\* Repository::graph_descendant_of: a commit is no descendant of itself
graph_descendant_of(repo, commit, ancestor) ==
    ancestor \in Ancestors(repo, commit)

\* Repository::merge_base: a best common ancestor, 0 when there is none
merge_base(repo, a, b) ==
    LET common == (Ancestors(repo, a) \cup {a}) \cap (Ancestors(repo, b) \cup {b})
        best   == {c \in common : \A d \in common : c \notin Ancestors(repo, d)}
    IN  IF best = {} THEN 0 ELSE CHOOSE c \in best : \A d \in best : d <= c

EntryAt(tree, n) == IF n \in DOMAIN tree THEN tree[n] ELSE NoEntry

SubtreeOf(e) == IF e.kind = "tree" THEN e.obj ELSE EmptyTree

IsTreeOrAbsent(e) == e.kind \in {"none", "tree"}

RECURSIVE merge_trees_ours(_, _, _)
\* faulty variant: an entry changed differently on both sides is taken from
\* ours and no conflict is reported
merge_trees_ours(base, ours, theirs) ==
    LET names == DOMAIN base \cup DOMAIN ours \cup DOMAIN theirs
        one(n) ==
            LET b == EntryAt(base, n)
                o == EntryAt(ours, n)
                t == EntryAt(theirs, n)
            IN  IF o = t THEN o
                ELSE IF o = b THEN t
                ELSE IF t = b THEN o
                ELSE IF o.kind = "tree" /\ t.kind = "tree" /\ IsTreeOrAbsent(b)
                THEN Tree(merge_trees_ours(SubtreeOf(b), o.obj, t.obj).tree)
                ELSE o
        kept == {n \in names : one(n).kind # "none"}
    IN  [conflict |-> FALSE, tree |-> [n \in kept |-> one(n)]]

RECURSIVE merge_trees(_, _, _)
\* Repository::merge_trees(base, ours, theirs): [conflict, tree].  An entry
\* changed on one side only takes that side; trees changed on both sides are
\* merged entry by entry; a blob changed differently on both sides conflicts.
merge_trees(base, ours, theirs) ==
    LET names == DOMAIN base \cup DOMAIN ours \cup DOMAIN theirs
        one(n) ==
            LET b == EntryAt(base, n)
                o == EntryAt(ours, n)
                t == EntryAt(theirs, n)
            IN  IF o = t THEN [conflict |-> FALSE, entry |-> o]
                ELSE IF o = b THEN [conflict |-> FALSE, entry |-> t]
                ELSE IF t = b THEN [conflict |-> FALSE, entry |-> o]
                ELSE IF o.kind = "tree" /\ t.kind = "tree"
                        /\ IsTreeOrAbsent(b)
                THEN LET m == merge_trees(SubtreeOf(b), o.obj, t.obj)
                     IN  [conflict |-> m.conflict, entry |-> Tree(m.tree)]
                ELSE [conflict |-> TRUE, entry |-> o]
        kept == {n \in names : one(n).entry.kind # "none"}
    IN  [conflict |-> \E n \in names : one(n).conflict,
         tree |-> [n \in kept |-> one(n).entry]]

\* faulty variant: no fast-forward, a target behind the source gets a merge
\* commit
merge_branches_noff(repo, source, target) ==
    LET s == repo.refs[source]
        t == repo.refs[target]
        fail(e, names) == [repo |-> repo, oid |-> 0, err |-> e, names |-> names]
    IN  IF s = 0 THEN fail("BranchNotFound", <<source>>)
        ELSE IF t = 0
        THEN [repo |-> [repo EXCEPT !.refs[target] = s], oid |-> s, err |-> None, names |-> <<>>]
        ELSE IF graph_descendant_of(repo, t, s)
        THEN [repo |-> repo, oid |-> t, err |-> None, names |-> <<>>]
        ELSE LET mb == merge_base(repo, s, t)
             IN  IF mb = 0 THEN fail("Git", <<>>)
                 ELSE LET m == merge_trees(repo.commits[mb].tree,
                                           repo.commits[t].tree,
                                           repo.commits[s].tree)
                          oid == Len(repo.commits) + 1
                      IN  IF m.conflict THEN fail("MergeConflict", <<source, target>>)
                          ELSE [repo |-> [commits |-> Append(repo.commits,
                                              [tree |-> m.tree, parents |-> <<t, s>>]),
                                          refs |-> [repo.refs EXCEPT ![target] = oid]],
                                oid |-> oid, err |-> None,
                                names |-> <<>>]

\* faulty variant: the merge commit's parents in the other order
merge_branches_swapped(repo, source, target) ==
    LET s == repo.refs[source]
        t == repo.refs[target]
        fail(e, names) == [repo |-> repo, oid |-> 0, err |-> e, names |-> names]
    IN  IF s = 0 THEN fail("BranchNotFound", <<source>>)
        ELSE IF t = 0
        THEN [repo |-> [repo EXCEPT !.refs[target] = s], oid |-> s, err |-> None,
              names |-> <<>>]
        ELSE IF graph_descendant_of(repo, t, s)
        THEN [repo |-> repo, oid |-> t, err |-> None, names |-> <<>>]
        ELSE IF graph_descendant_of(repo, s, t)
        THEN [repo |-> [repo EXCEPT !.refs[target] = s], oid |-> s, err |-> None,
              names |-> <<>>]
        ELSE LET mb == merge_base(repo, s, t)
             IN  IF mb = 0 THEN fail("Git", <<>>)
                 ELSE LET m == merge_trees(repo.commits[mb].tree,
                                           repo.commits[t].tree,
                                           repo.commits[s].tree)
                          oid == Len(repo.commits) + 1
                      IN  IF m.conflict THEN fail("MergeConflict", <<source, target>>)
                          ELSE [repo |-> [commits |-> Append(repo.commits,
                                              [tree |-> m.tree, parents |-> <<s, t>>]),
                                          refs |-> [repo.refs EXCEPT ![target] = oid]],
                                oid |-> oid, err |-> None, names |-> <<>>]

\* merge_branches(source, target): [repo, oid, err, names]; names are the
\* branch names the error carries
merge_branches(repo, source, target) ==
    LET s == repo.refs[source]
        t == repo.refs[target]
        fail(e, names) == [repo |-> repo, oid |-> 0, err |-> e, names |-> names]
    IN  IF s = 0 THEN fail("BranchNotFound", <<source>>)
        ELSE IF t = 0
        THEN [repo |-> [repo EXCEPT !.refs[target] = s], oid |-> s, err |-> None, names |-> <<>>]
        ELSE IF graph_descendant_of(repo, t, s)
        THEN [repo |-> repo, oid |-> t, err |-> None, names |-> <<>>]
        ELSE IF graph_descendant_of(repo, s, t)
        THEN [repo |-> [repo EXCEPT !.refs[target] = s], oid |-> s, err |-> None, names |-> <<>>]
        ELSE LET mb == merge_base(repo, s, t)
             IN  IF mb = 0 THEN fail("Git", <<>>)
                 ELSE LET m == merge_trees(repo.commits[mb].tree,
                                           repo.commits[t].tree,
                                           repo.commits[s].tree)
                          oid == Len(repo.commits) + 1
                      IN  IF m.conflict THEN fail("MergeConflict", <<source, target>>)
                          ELSE [repo |-> [commits |-> Append(repo.commits,
                                              [tree |-> m.tree, parents |-> <<t, s>>]),
                                          refs |-> [repo.refs EXCEPT ![target] = oid]],
                                oid |-> oid, err |-> None,
                                names |-> <<>>]

\* read_file_from_branch: [err, content]
read_file_from_branch(repo, branch, path) ==
    IF repo.refs[branch] = 0 THEN [err |-> "BranchNotFound", content |-> NoContent]
    ELSE LET e == TreeGetPath(TipTree(repo, branch), path)
         IN  IF e.kind # "blob"
             THEN [err |-> "Other", content |-> NoContent]
             ELSE [err |-> None, content |-> e.obj]

RECURSIVE TreeWalk(_, _)
\* Tree::walk in pre-order: the paths of all entries, a directory before its
\* contents, entries of one tree in the order git stores them
TreeWalk(tree, root) ==
    IF DOMAIN tree = {} THEN <<>>
    ELSE LET n == CHOOSE m \in DOMAIN tree : \A k \in DOMAIN tree : NameLeq(m, k)
             rest == [k \in DOMAIN tree \ {n} |-> tree[k]]
             here == <<Append(root, n)>>
             below == IF tree[n].kind = "tree"
                      THEN TreeWalk(tree[n].obj, Append(root, n)) ELSE <<>>
         IN  here \o below \o TreeWalk(rest, root)

\* find_issue_file_in_branch: [err, path], the first entry in walk order
\* whose name ends with the id's suffix
find_issue_file_in_branch(repo, branch, id) ==
    IF repo.refs[branch] = 0 THEN [err |-> "BranchNotFound", path |-> <<>>]
    ELSE LET walk == TreeWalk(TipTree(repo, branch), <<>>)
             hits == {i \in DOMAIN walk :
                         EndsWith(walk[i][Len(walk[i])], IssueSuffix(id))}
         IN  IF hits = {} THEN [err |-> "IssueNotFound", path |-> <<>>]
             ELSE [err |-> None,
                   path |-> walk[CHOOSE i \in hits : \A j \in hits : i <= j]]

(***************************************************************************)
(* State.                                                                  *)
(***************************************************************************)
VARIABLES
    serial,         \* whether commands are run one at a time (one shell) or by
                    \* concurrent agents
    mergeBranch,    \* Config.merge_branch
    repo,           \* the repository: commits and branch references
    workdir,        \* the files of .itack/ in the working directory, by name
    schemaVersion,  \* ledger: schema_version.version, 0 when the table is absent
    nextIssueId,    \* ledger: state.next_issue_id
    claims,         \* ledger: the rows of the claims table
    dbLock,         \* the process holding the ledger's write lock, 0 when free
    clock,          \* the wall clock, advanced by each reading
    pc,             \* each process's position in the command it runs
    cmd,            \* each process's command: arguments and local variables
    result,         \* each process's outcome of the command it ran last
    allocated       \* history: the identifiers next_issue_id returned, in order

vars == <<serial, mergeBranch, repo, workdir, schemaVersion, nextIssueId, claims, dbLock,
          clock, pc, cmd, result, allocated>>

confVars == <<serial, mergeBranch>>
gitVars == <<repo, workdir>>
ledgerVars == <<schemaVersion, nextIssueId, claims>>
histVars == <<allocated>>

\* the ids commands are asked about
Ids == 1 .. MaxIssues

NoInfo == [issue |-> NoIssue, title |-> <<>>, body |-> <<>>, path |-> <<>>]

NoCmd == [op |-> "none", id |-> 0, assignee |-> None, session |-> None,
          title |-> <<>>, epic |-> None, body |-> <<>>, info |-> NoInfo,
          existing |-> None]

\* out: "running" until the command returns, then "ok" or the error;
\* db: the outcome of the command's ledger call; who: the assignee an
\* AlreadyClaimed error names; race: the call of Database::claim overlapped
\* the other process's call for the same id while no row for it existed;
\* value: the identifier, counter value or commit returned
NoResult == [op |-> "none", id |-> 0, assignee |-> None, out |-> "none",
             db |-> "none", who |-> None, race |-> FALSE, value |-> 0]

Started(op, id, assignee) ==
    [NoResult EXCEPT !.op = op, !.id = id, !.assignee = assignee, !.out = "running"]

\* the arguments create is run with: title, epic, body
CreateInputs == {[title |-> <<"T">>, epic |-> "MVP", body |-> <<"b">>]}

\* the arguments claim is run with: the assignee and, from the environment,
\* the session, which only the first agent has
ClaimInputs ==
    {[assignee |-> "agent-1", session |-> "s1"],
     [assignee |-> "agent-2", session |-> None]}

\* process p may start a command
Free(p) ==
    /\ pc[p] = "idle"
    /\ serial => \A q \in Procs \ {p} : pc[q] = "idle"

RowsFor(rows, id) == {r \in rows : r.issue_id = id}

\* Project::current_branch: HEAD names the main branch, unborn until it exists
current_branch(r) == IF r.refs[MainBranch] # 0 THEN MainBranch ELSE None

(***************************************************************************)
(* Loading a record.                                                       *)
(***************************************************************************)
\* storage::db::load_issue (working directory): the possible outcomes; which
\* of several files with the id's suffix read_dir yields first is not fixed
load_issue(wd, id) ==
    LET hits == {n \in DOMAIN wd : EndsWith(n, IssueSuffix(id))}
    IN  IF hits = {} THEN {[err |-> "IssueNotFound", info |-> NoInfo]}
        ELSE {LET r == parse_issue(wd[n])
              IN  IF r.ok
                  THEN [err |-> None,
                        info |-> [issue |-> r.issue, title |-> r.title,
                                  body |-> r.body, path |-> <<ItackDir, n>>]]
                  ELSE [err |-> "InvalidMarkdown", info |-> NoInfo]
              : n \in hits}

\* load_issue_from_branch (claim.rs, release.rs, done.rs)
load_issue_from_branch(r, branch, id) ==
    LET f == find_issue_file_in_branch(r, branch, id)
    IN  IF f.err # None THEN [err |-> f.err, info |-> NoInfo]
        ELSE LET c == read_file_from_branch(r, branch, f.path)
             IN  IF c.err # None THEN [err |-> c.err, info |-> NoInfo]
                 ELSE LET q == parse_issue(c.content)
                      IN  IF q.ok
                          THEN [err |-> None,
                                info |-> [issue |-> q.issue, title |-> q.title,
                                          body |-> q.body, path |-> f.path]]
                          ELSE [err |-> "InvalidMarkdown", info |-> NoInfo]

\* load_all_issues_from_data_branch, before the sort: the records decoded
\* from the *.md files of .itack/ on the branch's tip
BranchIssues(r, branch) ==
    LET tree == TipTree(r, branch)
        dir  == IF ItackDir \in DOMAIN tree /\ tree[ItackDir].kind = "tree"
                THEN tree[ItackDir].obj ELSE EmptyTree
        md   == {n \in DOMAIN dir : /\ EndsWith(n, <<".md">>)
                                    /\ dir[n].kind = "blob"
                                    /\ parse_issue(dir[n].obj).ok}
    IN  {[issue |-> parse_issue(dir[n].obj).issue,
          title |-> parse_issue(dir[n].obj).title,
          body |-> parse_issue(dir[n].obj).body,
          path |-> <<ItackDir, n>>] : n \in md}

\* the load at the head of claim, release and done: from the data branch in
\* data-only mode, from the working directory otherwise
LoadOutcomes(id) ==
    IF mergeBranch = None
    THEN {load_issue_from_branch(repo, DataBranch, id)}
    ELSE load_issue(workdir, id)

(***************************************************************************)
(* Writing a record: the tail shared by create, claim, release and done.   *)
(***************************************************************************)
\* write_issue when merge_branch is set
WriteWorkdir(wd, path, content) ==
    IF mergeBranch # None
    THEN [n \in DOMAIN wd \cup {path[2]} |-> IF n = path[2] THEN content ELSE wd[n]]
    ELSE wd

\* commit_to_branch on the data branch, then merge_branches into the merge
\* branch when one is configured: [repo, out]
CommitAndMerge(r, path, content) ==
    LET c == commit_to_branch(r, DataBranch, path, content)
    IN  IF mergeBranch \notin {None, ""}
        THEN LET m == merge_branches(c.repo, DataBranch, mergeBranch)
             IN  [repo |-> m.repo, out |-> IF m.err # None THEN m.err ELSE "ok"]
        ELSE [repo |-> c.repo, out |-> "ok"]

\* the step that writes issue/title/body at path and returns from the command
Persist(p, issue, title, body, path) ==
    LET content == format_issue(issue, title, body)
        cm == CommitAndMerge(repo, path, content)
    IN  /\ workdir' = WriteWorkdir(workdir, path, content)
        /\ repo' = cm.repo
        /\ pc' = [pc EXCEPT ![p] = "idle"]
        /\ cmd' = [cmd EXCEPT ![p] = NoCmd]
        /\ result' = [result EXCEPT ![p].out = cm.out]

\* a command that returns the error e having changed nothing
Fail(p, r, e) ==
    /\ pc' = [pc EXCEPT ![p] = "idle"]
    /\ cmd' = [cmd EXCEPT ![p] = NoCmd]
    /\ result' = [result EXCEPT ![p] = [r EXCEPT !.out = e]]

\* faulty variant: a claim conflict exits like any other error
exit_code_error(e) == 1

\* ItackError::exit_code: CONFLICT for AlreadyClaimed, ERROR for the rest
exit_code(e) == IF e = "AlreadyClaimed" THEN 2 ELSE 1

\* main: SUCCESS when dispatch returns Ok, the error's exit code otherwise
ExitCode(out) == IF out = "ok" THEN 0 ELSE exit_code(out)

\* commands are started while the store and the clock have room
Room == Len(repo.commits) < MaxCommits /\ clock < MaxClock

LedgerOpen == schemaVersion = SCHEMA_VERSION

(***************************************************************************)
(* create (commands/create.rs)                                             *)
(***************************************************************************)
\* faulty variant: the value is read and the increment is lost
next_issue_id_stale(n) == [id |-> n, next |-> n]

\* faulty variant: RETURNING next_issue_id, the value after the increment
next_issue_id_post(n) == [id |-> n + 1, next |-> n + 1]

\* Database::next_issue_id: [id, next]
next_issue_id(n) == [id |-> n, next |-> n + 1]

\* run, up to the return of db.next_issue_id()
CreateAlloc(p) ==
    /\ Free(p) /\ LedgerOpen /\ dbLock = 0 /\ Room
    /\ nextIssueId <= MaxIssues
    /\ \E a \in CreateInputs :
         LET n == next_issue_id(nextIssueId)
         IN  /\ nextIssueId' = n.next
             /\ allocated' = Append(allocated, n.id)
             /\ cmd' = [cmd EXCEPT ![p] = [NoCmd EXCEPT !.op = "create", !.id = n.id,
                                            !.title = a.title, !.epic = a.epic,
                                            !.body = a.body]]
             /\ result' = [result EXCEPT ![p] =
                              [Started("create", n.id, None) EXCEPT
                                  !.db = "ok", !.value = n.id]]
    /\ pc' = [pc EXCEPT ![p] = "create_persist"]
    /\ UNCHANGED <<confVars, repo, workdir, schemaVersion, claims, dbLock, clock>>

\* run, from Issue::with_epic to the end
CreatePersist(p) ==
    /\ pc[p] = "create_persist"
    /\ LET issue == IssueWithEpic(cmd[p].id, cmd[p].epic, clock)
       IN  Persist(p, issue, cmd[p].title, cmd[p].body,
                   issue_relative_path(cmd[p].id, issue.created))
    /\ clock' = clock + 1
    /\ UNCHANGED <<confVars, ledgerVars, dbLock, histVars>>

(***************************************************************************)
(* claim (commands/claim.rs, Database::claim)                              *)
(***************************************************************************)
\* process q is inside Database::claim for id
InClaimCall(q, id) ==
    pc[q] \in {"claim_begin", "claim_select", "claim_insert"} /\ cmd[q].id = id

\* process p calls Database::claim(id, a.assignee); the calls that overlap
\* while the ledger has no row for id are marked as racing
EnterClaim(p, id, a, info) ==
    LET racing == {q \in Procs \ {p} : RowsFor(claims, id) = {} /\ InClaimCall(q, id)}
    IN  /\ pc' = [pc EXCEPT ![p] = "claim_begin"]
        /\ cmd' = [cmd EXCEPT ![p] = [NoCmd EXCEPT !.op = "claim", !.id = id,
                                       !.assignee = a.assignee,
                                       !.session = a.session, !.info = info]]
        /\ result' = [q \in Procs |->
                         IF q = p
                         THEN [Started("claim", id, a.assignee) EXCEPT
                                  !.race = racing # {}]
                         ELSE IF q \in racing THEN [result[q] EXCEPT !.race = TRUE]
                         ELSE result[q]]

\* run, up to the call of db.claim: the record is loaded
ClaimLoad(p) ==
    /\ Free(p) /\ LedgerOpen /\ Room
    /\ \E id \in Ids, a \in ClaimInputs :
       \E o \in LoadOutcomes(id) :
         IF o.err # None
         THEN Fail(p, Started("claim", id, a.assignee), o.err)
         ELSE EnterClaim(p, id, a, o.info)
    /\ UNCHANGED <<confVars, gitVars, ledgerVars, dbLock, clock, histVars>>

\* faulty variant: a DEFERRED transaction begins without the write lock
BeginDeferred(lock) == TRUE

\* whether a transaction of the given behaviour may begin now: IMMEDIATE
\* takes the write lock at BEGIN and waits while another process holds it
BeginImmediate(lock) == lock = 0

\* Database::claim: transaction_with_behavior(Immediate)
ClaimBegin(p) ==
    /\ pc[p] = "claim_begin"
    /\ BeginImmediate(dbLock)
    /\ dbLock' = p
    /\ pc' = [pc EXCEPT ![p] = "claim_select"]
    /\ UNCHANGED <<confVars, gitVars, ledgerVars, clock, cmd, result, histVars>>

\* faulty variant: the SELECT without its WHERE clause
SelectAssigneeOfAny(rows, id) ==
    IF rows = {} THEN None ELSE (CHOOSE r \in rows : TRUE).assignee

\* SELECT assignee FROM claims WHERE issue_id = ?1: the assignee or None
SelectAssignee(rows, id) ==
    IF RowsFor(rows, id) = {} THEN None
    ELSE (CHOOSE r \in RowsFor(rows, id) : TRUE).assignee

\* Database::claim: the SELECT and the early return on an existing row, which
\* drops (rolls back) the transaction
ClaimSelect(p) ==
    /\ pc[p] = "claim_select"
    /\ LET existing == SelectAssignee(claims, cmd[p].id)
       IN  IF existing # None
           THEN /\ Fail(p, [result[p] EXCEPT !.db = "AlreadyClaimed", !.who = existing],
                        "AlreadyClaimed")
                /\ dbLock' = 0
           ELSE /\ pc' = [pc EXCEPT ![p] = "claim_insert"]
                /\ UNCHANGED <<cmd, result, dbLock>>
    /\ UNCHANGED <<confVars, gitVars, ledgerVars, clock, histVars>>

\* INSERT INTO claims: the primary key admits one row per issue_id;
\* [ok, rows]
InsertClaim(rows, row) ==
    IF RowsFor(rows, row.issue_id) # {} THEN [ok |-> FALSE, rows |-> rows]
    ELSE [ok |-> TRUE, rows |-> rows \cup {row}]

\* Database::claim: the INSERT and the COMMIT
ClaimInsert(p) ==
    /\ pc[p] = "claim_insert"
    /\ LET ins == InsertClaim(claims, [issue_id |-> cmd[p].id,
                                       assignee |-> cmd[p].assignee,
                                       claimed_at |-> clock])
       IN  IF ins.ok
           THEN /\ claims' = ins.rows
                /\ pc' = [pc EXCEPT ![p] = "claim_persist"]
                /\ result' = [result EXCEPT ![p].db = "ok"]
                /\ UNCHANGED cmd
           ELSE /\ Fail(p, [result[p] EXCEPT !.db = "Database"], "Database")
                /\ UNCHANGED claims
    /\ dbLock' = IF dbLock = p THEN 0 ELSE dbLock
    /\ clock' = clock + 1
    /\ UNCHANGED <<confVars, gitVars, schemaVersion, nextIssueId, allocated>>

\* faulty variant: the status is set whatever it was
ClaimUpdateAnyStatus(issue, assignee, session, branch) ==
    [issue EXCEPT !.assignee = assignee,
                  !.branch = branch,
                  !.session = session,
                  !.status = "in-progress"]

\* run, after db.claim: the fields the claim sets
ClaimUpdate(issue, assignee, session, branch) ==
    [issue EXCEPT !.assignee = assignee,
                  !.branch = branch,
                  !.session = session,
                  !.status = IF @ = "open" THEN "in-progress" ELSE @]

\* run, from "Update issue fields" to the end
ClaimPersist(p) ==
    /\ pc[p] = "claim_persist"
    /\ Persist(p, ClaimUpdate(cmd[p].info.issue, cmd[p].assignee, cmd[p].session,
                              current_branch(repo)),
               cmd[p].info.title, cmd[p].info.body, cmd[p].info.path)
    /\ UNCHANGED <<confVars, ledgerVars, dbLock, clock, histVars>>

(***************************************************************************)
(* release (commands/release.rs, Database::release)                        *)
(***************************************************************************)
\* run, up to the call of db.release: the record is loaded
ReleaseLoad(p) ==
    /\ Free(p) /\ LedgerOpen /\ Room
    /\ \E id \in Ids :
       \E o \in LoadOutcomes(id) :
         IF o.err # None
         THEN Fail(p, Started("release", id, None), o.err)
         ELSE /\ pc' = [pc EXCEPT ![p] = "release_db"]
              /\ cmd' = [cmd EXCEPT ![p] = [NoCmd EXCEPT !.op = "release", !.id = id,
                                             !.info = o.info]]
              /\ result' = [result EXCEPT ![p] = Started("release", id, None)]
    /\ UNCHANGED <<confVars, gitVars, ledgerVars, dbLock, clock, histVars>>

\* faulty variant: the DELETE without its WHERE clause
DeleteClaimAny(rows, id) == [n |-> Cardinality(rows), rows |-> {}]

\* faulty variant: the DELETE is counted and not applied
DeleteClaimNone(rows, id) == [n |-> Cardinality(RowsFor(rows, id)), rows |-> rows]

\* DELETE FROM claims WHERE issue_id = ?1: [n, rows], n the rows affected
DeleteClaim(rows, id) ==
    [n |-> Cardinality(RowsFor(rows, id)), rows |-> rows \ RowsFor(rows, id)]

\* Database::release
ReleaseDb(p) ==
    /\ pc[p] = "release_db"
    /\ dbLock = 0
    /\ LET d == DeleteClaim(claims, cmd[p].id)
       IN  IF d.n = 0
           THEN /\ Fail(p, [result[p] EXCEPT !.db = "NotClaimed"], "NotClaimed")
                /\ UNCHANGED claims
           ELSE /\ claims' = d.rows
                /\ pc' = [pc EXCEPT ![p] = "release_persist"]
                /\ result' = [result EXCEPT ![p].db = "ok"]
                /\ UNCHANGED cmd
    /\ UNCHANGED <<confVars, gitVars, schemaVersion, nextIssueId, dbLock, clock,
                   allocated>>

\* faulty variant: the session is left in the record
ReleaseUpdateKeepSession(issue) ==
    [issue EXCEPT !.assignee = None, !.branch = None]

\* run, after db.release: the fields the release clears
ReleaseUpdate(issue) ==
    [issue EXCEPT !.assignee = None, !.branch = None, !.session = None]

\* run, from "Update issue fields" to the end
ReleasePersist(p) ==
    /\ pc[p] = "release_persist"
    /\ Persist(p, ReleaseUpdate(cmd[p].info.issue),
               cmd[p].info.title, cmd[p].info.body, cmd[p].info.path)
    /\ UNCHANGED <<confVars, ledgerVars, dbLock, clock, histVars>>

(***************************************************************************)
(* done (commands/done.rs): the ledger is not opened                       *)
(***************************************************************************)
\* run, up to the AlreadyDone check
DoneLoad(p) ==
    /\ Free(p) /\ Room
    /\ \E id \in Ids :
       \E o \in LoadOutcomes(id) :
         IF o.err # None
         THEN Fail(p, Started("done", id, None), o.err)
         ELSE IF o.info.issue.status = "done"
         THEN Fail(p, Started("done", id, None), "AlreadyDone")
         ELSE /\ pc' = [pc EXCEPT ![p] = "done_persist"]
              /\ cmd' = [cmd EXCEPT ![p] = [NoCmd EXCEPT !.op = "done", !.id = id,
                                             !.info = o.info]]
              /\ result' = [result EXCEPT ![p] = Started("done", id, None)]
    /\ UNCHANGED <<confVars, gitVars, ledgerVars, dbLock, clock, histVars>>

\* run, from the status change to the end
DonePersist(p) ==
    /\ pc[p] = "done_persist"
    /\ Persist(p, [cmd[p].info.issue EXCEPT !.status = "done"],
               cmd[p].info.title, cmd[p].info.body, cmd[p].info.path)
    /\ UNCHANGED <<confVars, ledgerVars, dbLock, clock, histVars>>

(***************************************************************************)
(* Database::peek_next_issue_id                                            *)
(***************************************************************************)
peek_next_issue_id(n) == n

Peek(p) ==
    /\ Free(p) /\ LedgerOpen
    /\ result' = [result EXCEPT ![p] =
                     [Started("peek", 0, None) EXCEPT
                         !.out = "ok", !.value = peek_next_issue_id(nextIssueId)]]
    /\ UNCHANGED <<confVars, gitVars, ledgerVars, dbLock, clock, pc, cmd, histVars>>

\* Database::list_claims: the rows, read
ListClaims(p) ==
    /\ Free(p) /\ LedgerOpen
    /\ result' = [result EXCEPT ![p] =
                     [Started("list-claims", 0, None) EXCEPT
                         !.out = "ok", !.value = Cardinality(claims)]]
    /\ UNCHANGED <<confVars, gitVars, ledgerVars, dbLock, clock, pc, cmd, histVars>>

(***************************************************************************)
(* The Database API called directly, as the unit tests of db.rs call it:   *)
(* no record is loaded before the call and none is written after it.       *)
(***************************************************************************)
\* db.claim(id, assignee) is called
DbClaim(p) ==
    /\ Free(p) /\ LedgerOpen /\ clock < MaxClock
    /\ \E id \in Ids, a \in ClaimInputs : EnterClaim(p, id, a, NoInfo)
    /\ UNCHANGED <<confVars, gitVars, ledgerVars, dbLock, clock, histVars>>

\* db.release(id) is called
DbRelease(p) ==
    /\ Free(p) /\ LedgerOpen
    /\ \E id \in Ids :
         /\ pc' = [pc EXCEPT ![p] = "release_db"]
         /\ cmd' = [cmd EXCEPT ![p] = [NoCmd EXCEPT !.op = "release", !.id = id]]
         /\ result' = [result EXCEPT ![p] = Started("release", id, None)]
    /\ UNCHANGED <<confVars, gitVars, ledgerVars, dbLock, clock, histVars>>

\* the call that succeeded returns to the test
DbReturn(p) ==
    /\ pc[p] \in {"create_persist", "claim_persist", "release_persist"}
    /\ pc' = [pc EXCEPT ![p] = "idle"]
    /\ cmd' = [cmd EXCEPT ![p] = NoCmd]
    /\ result' = [result EXCEPT ![p].out = "ok"]
    /\ UNCHANGED <<confVars, gitVars, ledgerVars, dbLock, clock, histVars>>

(***************************************************************************)
(* The object-store writer and the merge called directly (core/git.rs).    *)
(***************************************************************************)
OtherContent == [yaml |-> NoFrontMatter, text |-> <<"s">>]

\* the paths and contents the writer is called with: two files below .itack
\* (every caller passes the path of a file in .itack; no path names a
\* directory of another)
GitPaths == {<<ItackDir, <<"notes">>>>, <<ItackDir, <<"other">>>>}
GitContents == {ReadmeContent, OtherContent}

\* commit_to_branch(repo, branch, path, content, message) is called
GitCommit(p) ==
    /\ Free(p) /\ Len(repo.commits) < MaxGitCommits
    /\ \E b \in Branches, path \in GitPaths, content \in GitContents :
         LET c == commit_to_branch(repo, b, path, content)
         IN  /\ repo' = c.repo
             /\ result' = [result EXCEPT ![p] =
                              [Started("commit", 0, None) EXCEPT
                                  !.out = "ok", !.value = c.oid]]
    /\ UNCHANGED <<confVars, workdir, ledgerVars, dbLock, clock, pc, cmd, histVars>>

\* merge_branches(repo, source, target, message) is called
GitMerge(p) ==
    /\ Free(p) /\ Len(repo.commits) < MaxGitCommits
    /\ \E src \in Branches, tgt \in Branches :
         LET m == merge_branches(repo, src, tgt)
         IN  /\ src # tgt
             /\ repo' = m.repo
             /\ result' = [result EXCEPT ![p] =
                              [Started("merge", 0, None) EXCEPT
                                  !.out = IF m.err # None THEN m.err ELSE "ok",
                                  !.value = m.oid]]
    /\ UNCHANGED <<confVars, workdir, ledgerVars, dbLock, clock, pc, cmd, histVars>>

\* faulty variant: the reference is set whatever it points to now
reference_update_blind(current, first_parent) == TRUE

\* Repository::commit with update_ref: the reference is moved when the tip
\* it has now is the commit's first parent (none when the branch is new),
\* and the call fails otherwise
reference_update(current, first_parent) == current = first_parent

\* commit_to_branch, up to the comparison of the trees: the tip is read and
\* the tree is built on it; Ok(None) when the tree is the tip's
CommitRead(p) ==
    /\ Free(p) /\ Len(repo.commits) < MaxGitCommits
    /\ \E path \in GitPaths, content \in GitContents :
         IF commit_to_branch(repo, DataBranch, path, content).oid = 0
         THEN /\ result' = [result EXCEPT ![p] =
                               [Started("write", 0, None) EXCEPT !.out = "ok"]]
              /\ UNCHANGED <<pc, cmd>>
         ELSE /\ pc' = [pc EXCEPT ![p] = "commit_write"]
              /\ cmd' = [cmd EXCEPT ![p] =
                            [NoCmd EXCEPT !.op = "write", !.id = repo.refs[DataBranch],
                                          !.info.path = path, !.body = content.text]]
              /\ result' = [result EXCEPT ![p] =
                               Started("write", repo.refs[DataBranch], None)]
    /\ UNCHANGED <<confVars, gitVars, ledgerVars, dbLock, clock, histVars>>

\* commit_to_branch, the call of Repository::commit: the commit has the tip
\* read before as its parent and the tree built on it
CommitWrite(p) ==
    /\ pc[p] = "commit_write"
    /\ pc' = [pc EXCEPT ![p] = "idle"]
    /\ cmd' = [cmd EXCEPT ![p] = NoCmd]
    /\ IF reference_update(repo.refs[DataBranch], cmd[p].id)
       THEN \E c \in {commit_to_branch([repo EXCEPT !.refs[DataBranch] = cmd[p].id],
                                        DataBranch, cmd[p].info.path,
                                        [yaml |-> NoFrontMatter, text |-> cmd[p].body])} :
               /\ repo' = c.repo
               /\ result' = [result EXCEPT ![p].out = "ok", ![p].value = c.oid]
       ELSE /\ result' = [result EXCEPT ![p].out = "Git"]
            /\ UNCHANGED repo
    /\ UNCHANGED <<confVars, workdir, ledgerVars, dbLock, clock, histVars>>

(***************************************************************************)
(* Rebuild and repair (Database::create_or_rebuild, Database::repair_state)*)
(***************************************************************************)
SetMax(S) == IF S = {} THEN 0 ELSE CHOOSE m \in S : \A k \in S : k <= m

\* the *.md files of issues_dir that read_issue decodes
ScanFiles(wd) == {n \in DOMAIN wd : parse_issue(wd[n]).ok}

ScannedIssue(wd, n) == parse_issue(wd[n]).issue

\* the claims table the scan's INSERT OR REPLACE statements can leave: one row
\* per id with an assignee, from the file with that id scanned last
ScanClaims(wd) ==
    LET withAssignee == {n \in ScanFiles(wd) : ScannedIssue(wd, n).assignee # None}
        ids == {ScannedIssue(wd, n).id : n \in withAssignee}
        last == {f \in [ids -> withAssignee] :
                    \A i \in ids : ScannedIssue(wd, f[i]).id = i}
    IN  {{[issue_id |-> i,
           assignee |-> ScannedIssue(wd, f[i]).assignee,
           claimed_at |-> ScannedIssue(wd, f[i]).created] : i \in ids} : f \in last}

\* faulty variant: the counter the ledger had is kept when it is greater
ScanNextIdKeepCounter(wd) ==
    LET scanned == SetMax({ScannedIssue(wd, n).id : n \in ScanFiles(wd)}) + 1
    IN  IF nextIssueId > scanned THEN nextIssueId ELSE scanned

\* the counter the scan leaves: max_id + 1
ScanNextId(wd) == SetMax({ScannedIssue(wd, n).id : n \in ScanFiles(wd)}) + 1

\* faulty variant: the version row is written with the version before
INSERTED_VERSION_OLD == SCHEMA_VERSION - 1

\* the literal of INSERT INTO schema_version (version) VALUES (1)
INSERTED_VERSION == 1

\* Database::open -> ensure_schema -> create_or_rebuild, run by a process
\* whose command finds the schema absent
Rebuild(p) ==
    /\ Free(p) /\ dbLock = 0
    /\ schemaVersion # SCHEMA_VERSION
    /\ schemaVersion' = INSERTED_VERSION
    /\ nextIssueId' = ScanNextId(workdir)
    /\ \E rows \in ScanClaims(workdir) : claims' = rows
    /\ result' = [result EXCEPT ![p] = [Started("rebuild", 0, None) EXCEPT !.out = "ok"]]
    /\ UNCHANGED <<confVars, gitVars, dbLock, clock, pc, cmd, histVars>>

\* faulty variant: the version is not read again, the rebuild goes ahead
version_unchecked(version) == 0

\* create_or_rebuild: the version read inside the EXCLUSIVE transaction, 0
\* when the table is absent
version_in_transaction(version) == version

\* Database::open -> ensure_schema: the process finds the schema absent or
\* of another version and goes on to create_or_rebuild
OpenCheck(p) ==
    /\ Free(p)
    /\ schemaVersion # SCHEMA_VERSION
    /\ pc' = [pc EXCEPT ![p] = "open_rebuild"]
    /\ result' = [result EXCEPT ![p] = Started("open", 0, None)]
    /\ UNCHANGED <<confVars, gitVars, ledgerVars, dbLock, clock, cmd, histVars>>

\* create_or_rebuild: one EXCLUSIVE transaction, begun when no other process
\* is inside a transaction; while one is, the wait can run out (Database)
OpenRebuild(p) ==
    /\ pc[p] = "open_rebuild"
    /\ pc' = [pc EXCEPT ![p] = "idle"]
    /\ IF dbLock # 0
       THEN /\ result' = [result EXCEPT ![p].out = "Database", ![p].db = "Database"]
            /\ UNCHANGED ledgerVars
       ELSE IF version_in_transaction(schemaVersion) = SCHEMA_VERSION
       THEN /\ result' = [result EXCEPT ![p].out = "ok", ![p].db = "current"]
            /\ UNCHANGED ledgerVars
       ELSE /\ schemaVersion' = INSERTED_VERSION
            /\ nextIssueId' = ScanNextId(workdir)
            /\ \E rows \in ScanClaims(workdir) : claims' = rows
            /\ result' = [result EXCEPT ![p].out = "ok", ![p].db = "rebuilt"]
    /\ UNCHANGED <<confVars, gitVars, dbLock, clock, cmd, histVars>>

\* core::find_issue_in_branch: whether the data branch has a file for the id
find_issue_in_branch(r, branch, id) ==
    find_issue_file_in_branch(r, branch, id).err = None

RECURSIVE migrate_to_data_branch(_, _, _)
\* init.rs migrate_to_data_branch: every decodable working directory file
\* whose id has no file on the data branch is committed there as it is
migrate_to_data_branch(r, wd, todo) ==
    IF todo = {} THEN r
    ELSE LET n == CHOOSE m \in todo : \A k \in todo : NameLeq(m, k)
             id == ScannedIssue(wd, n).id
             r2 == IF find_issue_in_branch(r, DataBranch, id) THEN r
                   ELSE commit_to_branch(r, DataBranch, <<ItackDir, n>>, wd[n]).repo
         IN  migrate_to_data_branch(r2, wd, todo \ {n})

\* init::run on an initialized project: repair_database, that is the
\* migrations, open_or_create and Database::repair_state
InitRepair(p) ==
    /\ Free(p) /\ dbLock = 0 /\ Room
    /\ repo' = migrate_to_data_branch(repo, workdir, ScanFiles(workdir))
    /\ schemaVersion' = IF schemaVersion = SCHEMA_VERSION THEN schemaVersion
                        ELSE INSERTED_VERSION
    /\ nextIssueId' = ScanNextId(workdir)
    /\ \E rows \in ScanClaims(workdir) : claims' = rows
    /\ result' = [result EXCEPT ![p] = [Started("repair", 0, None) EXCEPT !.out = "ok"]]
    /\ UNCHANGED <<confVars, workdir, dbLock, clock, pc, cmd, histVars>>

\* the ledger file is removed: it lives outside the repository and is
\* disposable; the next command's open finds no schema and rebuilds
LedgerLost ==
    /\ \A p \in Procs : pc[p] = "idle"
    /\ dbLock = 0
    /\ LedgerOpen
    /\ schemaVersion' = 0
    /\ nextIssueId' = 0
    /\ claims' = {}
    /\ UNCHANGED <<confVars, gitVars, dbLock, clock, pc, cmd, result, histVars>>

(***************************************************************************)
(* show, set-session, depend, undepend and edit: commands that read the    *)
(* record from the data branch and do not open the ledger.  Each runs with *)
(* no other command in progress and is one step.                           *)
(***************************************************************************)
\* fs::write and fs::remove_file on a file of .itack/
PutFile(wd, name, content) ==
    [n \in DOMAIN wd \cup {name} |-> IF n = name THEN content ELSE wd[n]]

RemoveFile(wd, name) == [n \in DOMAIN wd \ {name} |-> wd[n]]

\* storage::db::load_issue_from_data_branch: [err, info, wd]; the bytes found
\* on the branch are written to the working directory before they are decoded
load_issue_from_data_branch(r, wd, branch, id) ==
    IF ~find_issue_in_branch(r, branch, id)
    THEN [err |-> "IssueNotFound", info |-> NoInfo, wd |-> wd]
    ELSE LET path == find_issue_file_in_branch(r, branch, id).path
             c == read_file_from_branch(r, branch, path)
             synced == PutFile(wd, path[2], c.content)
             q == parse_issue(c.content)
         IN  IF c.err # None
             THEN [err |-> "IssueNotFound", info |-> NoInfo, wd |-> wd]
             ELSE IF ~q.ok
             THEN [err |-> "InvalidMarkdown", info |-> NoInfo, wd |-> synced]
             ELSE [err |-> None,
                   info |-> [issue |-> q.issue, title |-> q.title,
                             body |-> q.body, path |-> path],
                   wd |-> synced]

\* core::cleanup_working_file: the path gets the content it has at the tip
\* HEAD names when it is tracked there and is removed otherwise
cleanup_working_file(r, wd, path) ==
    LET e == TreeGetPath(TipTree(r, MainBranch), path)
    IN  IF e.kind = "blob" THEN PutFile(wd, path[2], e.obj)
        ELSE RemoveFile(wd, path[2])

\* a command of one step returns
Return(p, op, id, out) ==
    result' = [result EXCEPT ![p] = [Started(op, id, None) EXCEPT !.out = out]]

\* show::run
Show(p) ==
    /\ Free(p)
    /\ \E id \in Ids :
       \E o \in {load_issue_from_data_branch(repo, workdir, DataBranch, id)} :
             IF o.err # None
             THEN /\ workdir' = o.wd
                  /\ Return(p, "show", id, o.err)
             ELSE /\ workdir' = cleanup_working_file(repo, o.wd, o.info.path)
                  /\ Return(p, "show", id, "ok")
    /\ UNCHANGED <<confVars, repo, ledgerVars, dbLock, clock, pc, cmd, histVars>>

\* the sessions set-session is run with
SessionInputs == {"s2"}

\* set_session::run
SetSession(p) ==
    /\ Free(p) /\ Room
    /\ \E id \in Ids, session \in SessionInputs :
       \E o \in {load_issue_from_data_branch(repo, workdir, DataBranch, id)} :
         LET content == format_issue([o.info.issue EXCEPT !.session = session],
                                     o.info.title, o.info.body)
         IN  IF o.err # None
             THEN /\ workdir' = o.wd
                  /\ repo' = repo
                  /\ Return(p, "set-session", id, o.err)
             ELSE /\ repo' = commit_to_branch(repo, DataBranch, o.info.path,
                                              content).repo
                  /\ workdir' = RemoveFile(PutFile(o.wd, o.info.path[2], content),
                                           o.info.path[2])
                  /\ Return(p, "set-session", id, "ok")
    /\ UNCHANGED <<confVars, ledgerVars, dbLock, clock, pc, cmd, histVars>>

RECURSIVE SortedSeq(_)
\* Vec::sort on a list of ids without duplicates
SortedSeq(S) ==
    IF S = {} THEN <<>>
    ELSE LET m == CHOOSE x \in S : \A y \in S : x <= y
         IN  <<m>> \o SortedSeq(S \ {m})

SeqRange(q) == {q[i] : i \in DOMAIN q}

\* depend::run, the loop and the sort: the dependencies after the command
AddDeps(depends_on, id, deps) ==
    SortedSeq(SeqRange(depends_on) \cup (SeqRange(deps) \ {id}))

RECURSIVE Retain(_, _)
\* Vec::retain(|d| !drop.contains(d)): the list without the ids of drop, in
\* the order it had
Retain(q, drop) ==
    IF q = <<>> THEN <<>>
    ELSE (IF Head(q) \in drop THEN <<>> ELSE <<Head(q)>>) \o Retain(Tail(q), drop)

\* undepend::run: the dependencies after the command
RemoveDeps(depends_on, deps) == Retain(depends_on, SeqRange(deps))

\* the dependency lists depend and undepend are run with
DepInputs == {<<1>>, <<2, 1>>}

\* depend::run and undepend::run from the record loaded to the end: the new
\* version is committed to the data branch, nothing else is written
WriteDeps(p, op, id, o, depends_on) ==
    IF o.err # None
    THEN /\ repo' = repo
         /\ Return(p, op, id, o.err)
    ELSE /\ repo' = commit_to_branch(repo, DataBranch, o.info.path,
                        format_issue([o.info.issue EXCEPT !.depends_on = depends_on],
                                     o.info.title, o.info.body)).repo
         /\ Return(p, op, id, "ok")

\* depend::run; the record is loaded from the data branch
Depend(p) ==
    /\ Free(p) /\ Room
    /\ \E id \in Ids, deps \in DepInputs :
       \E o \in {load_issue_from_branch(repo, DataBranch, id)} :
             WriteDeps(p, "depend", id, o,
                       AddDeps(o.info.issue.depends_on, id, deps))
    /\ UNCHANGED <<confVars, workdir, ledgerVars, dbLock, clock, pc, cmd, histVars>>

\* undepend::run; the record is loaded from the data branch
Undepend(p) ==
    /\ Free(p) /\ Room
    /\ \E id \in Ids, deps \in DepInputs :
       \E o \in {load_issue_from_branch(repo, DataBranch, id)} :
             WriteDeps(p, "undepend", id, o,
                       RemoveDeps(o.info.issue.depends_on, deps))
    /\ UNCHANGED <<confVars, workdir, ledgerVars, dbLock, clock, pc, cmd, histVars>>

\* the body the editor's user types
EditedBody == <<"e", NL>>

\* what the editor leaves in the file it was given and whether it exits with
\* success: the file as it was, or the record with its body replaced
EditorOutcomes(content) ==
    LET q == parse_issue(content)
        edited == IF q.ok THEN format_issue(q.issue, q.title, EditedBody)
                  ELSE content
    IN  {[saved |-> content, success |-> TRUE],
         [saved |-> edited, success |-> TRUE],
         [saved |-> edited, success |-> FALSE]}

\* edit::run in data-only mode: the file of the branch is edited in a
\* temporary file and committed as the editor left it
EditDataOnly(p, id) ==
    \E f \in {find_issue_file_in_branch(repo, DataBranch, id)} :
    \E c \in {read_file_from_branch(repo, DataBranch, f.path)} :
        /\ workdir' = workdir
        /\ IF f.err # None
           THEN repo' = repo /\ Return(p, "edit", id, f.err)
           ELSE IF c.err # None
           THEN repo' = repo /\ Return(p, "edit", id, c.err)
           ELSE \E e \in EditorOutcomes(c.content) :
                  IF ~e.success
                  THEN repo' = repo /\ Return(p, "edit", id, "EditorFailed")
                  ELSE /\ repo' = commit_to_branch(repo, DataBranch, f.path,
                                                   e.saved).repo
                       /\ Return(p, "edit", id, "ok")

\* edit::run with a merge branch: the file of the working directory is
\* edited in place, committed as the editor left it and merged
EditInPlace(p, id) ==
    \E o \in load_issue(workdir, id) :
        IF o.err # None
        THEN UNCHANGED gitVars /\ Return(p, "edit", id, o.err)
        ELSE \E e \in EditorOutcomes(workdir[o.info.path[2]]) :
               /\ workdir' = PutFile(workdir, o.info.path[2], e.saved)
               /\ IF ~e.success
                  THEN repo' = repo /\ Return(p, "edit", id, "EditorFailed")
                  ELSE LET cm == CommitAndMerge(repo, o.info.path, e.saved)
                       IN  repo' = cm.repo /\ Return(p, "edit", id, cm.out)

\* edit::run
Edit(p) ==
    /\ Free(p) /\ Room
    /\ \E id \in Ids :
         IF mergeBranch = None THEN EditDataOnly(p, id) ELSE EditInPlace(p, id)
    /\ UNCHANGED <<confVars, ledgerVars, dbLock, clock, pc, cmd, histVars>>

(***************************************************************************)
(* Locating a record's file on a branch (core/git.rs).                     *)
(***************************************************************************)
\* the legacy file name <id>.md
LegacyName(id) == <<id, ".md">>

\* a lookup of an id's file on the data branch; the path found is kept
Locate(p) ==
    /\ Free(p)
    /\ \E id \in Ids :
       \E f \in {find_issue_file_in_branch(repo, DataBranch, id)} :
          /\ cmd' = [cmd EXCEPT ![p] = [NoCmd EXCEPT !.op = "locate", !.id = id,
                                                     !.info.path = f.path]]
          /\ Return(p, "locate", id, IF f.err = None THEN "ok" ELSE f.err)
    /\ UNCHANGED <<confVars, gitVars, ledgerVars, dbLock, clock, pc, histVars>>

(***************************************************************************)
(* Listing the records of the data branch (storage/db.rs, list.rs).        *)
(***************************************************************************)
\* faulty variant: the statuses in the order the enum declares them
sort_priority_declared(status) ==
    CASE status = "open" -> 0
      [] status = "in-progress" -> 1
      [] status = "done" -> 2
      [] status = "wontfix" -> 3

\* Status::sort_priority
sort_priority(status) ==
    CASE status = "in-progress" -> 0
      [] status = "open" -> 1
      [] status = "done" -> 2
      [] status = "wontfix" -> 3

RECURSIVE SortIssues(_)
\* issues.sort_by(status priority, then id): a stable sort, an element goes
\* behind the ones that do not compare greater
SortIssues(q) ==
    IF q = <<>> THEN <<>>
    ELSE LET s == SortIssues(SubSeq(q, 1, Len(q) - 1))
             x == q[Len(q)]
             Greater(a, b) ==
                 \/ sort_priority(a.issue.status) > sort_priority(b.issue.status)
                 \/ /\ sort_priority(a.issue.status) = sort_priority(b.issue.status)
                    /\ a.issue.id > b.issue.id
             k == Cardinality({i \in DOMAIN s : ~Greater(s[i], x)})
         IN  SubSeq(s, 1, k) \o <<x>> \o SubSeq(s, k + 1, Len(s))

RECURSIVE ReadEntries(_, _)
\* the loop of load_all_issues_from_data_branch over the entries of .itack/
\* in the tree's order: the *.md files that decode, the others skipped
ReadEntries(dir, walk) ==
    IF walk = <<>> THEN <<>>
    ELSE LET n == walk[1][1]
             q == IF Len(walk[1]) = 1 /\ dir[n].kind = "blob" /\ EndsWith(n, <<".md">>)
                  THEN parse_issue(dir[n].obj) ELSE [ok |-> FALSE]
         IN  (IF q.ok THEN <<[issue |-> q.issue, title |-> q.title, body |-> q.body,
                               path |-> <<ItackDir, n>>]>>
              ELSE <<>>) \o ReadEntries(dir, Tail(walk))

\* load_all_issues_from_data_branch: empty without the branch or without
\* .itack/ on it
load_all_issues_from_data_branch(r, branch) ==
    LET tree == TipTree(r, branch)
    IN  IF ItackDir \notin DOMAIN tree \/ tree[ItackDir].kind # "tree" THEN <<>>
        ELSE SortIssues(ReadEntries(tree[ItackDir].obj,
                                    TreeWalk(tree[ItackDir].obj, <<>>)))

\* list::run without filters: the records in the order they are printed
List(p) ==
    /\ Free(p)
    /\ result' = [result EXCEPT ![p] =
                     [Started("list", 0, None) EXCEPT
                         !.out = "ok",
                         !.value = load_all_issues_from_data_branch(repo, DataBranch)]]
    /\ UNCHANGED <<confVars, gitVars, ledgerVars, dbLock, clock, pc, cmd, histVars>>

(***************************************************************************)
(* doctor: the synchronization check (commands/doctor.rs).                 *)
(***************************************************************************)
\* check_issue_sync: the in-progress records without a claim row, the claim
\* rows without a record, and whether the counter is not above the largest id
check_issue_sync(r, rows, next_id) ==
    LET issues == load_all_issues_from_data_branch(r, DataBranch)
        issue_ids == {issues[i].issue.id : i \in DOMAIN issues}
        claimed_ids == {c.issue_id : c \in rows}
    IN  [missing_claims |->
             {issues[i].issue.id : i \in {k \in DOMAIN issues :
                 /\ issues[k].issue.status = "in-progress"
                 /\ issues[k].issue.id \notin claimed_ids}},
         orphan_claims |-> claimed_ids \ issue_ids,
         next_id_issue |-> issues # <<>> /\ next_id <= SetMax(issue_ids)]

\* SyncCheckResult::is_ok
is_ok(check) ==
    check.missing_claims = {} /\ check.orphan_claims = {} /\ ~check.next_id_issue

(***************************************************************************)
(* A record written to a file and read back (storage/markdown.rs           *)
(* write_issue, read_issue).                                               *)
(***************************************************************************)
\* the issues, titles and bodies a record is written with: every optional
\* field absent or present, a text field that holds "---", titles that are
\* empty, one line, two lines or begin like a heading, bodies that are empty,
\* begin or end with line breaks or not, or hold a heading
CodecIssues ==
    [assignee : {None, "agent-1", Dashed}, branch : {None, MainBranch},
     created : {0, MaxClock}, depends_on : {<<>>, <<1>>}, epic : {None, "MVP"},
     id : Ids, session : {None, "s1"}, status : {"open", "done"}]

CodecTitles == {<<>>, <<"T">>, <<"T", NL, "U">>, <<"#", " ", "T">>}

CodecBodies ==
    {<<>>, <<"b">>, <<"b", NL>>, <<NL, "b", NL>>, <<NL>>,
     <<"b", NL, NL, "#", " ", "c", NL>>}

\* write_issue(path, issue, title, body): format_issue, then fs::write
write_issue(p) ==
    /\ pc[p] = "idle" /\ cmd[p].op = "roundtrip"
    /\ workdir = <<>>
    /\ workdir' = (cmd[p].info.path[2] :>
                      format_issue(cmd[p].info.issue, cmd[p].info.title,
                                   cmd[p].info.body))
    /\ pc' = [pc EXCEPT ![p] = "written"]
    /\ result' = [result EXCEPT ![p] = Started("roundtrip", cmd[p].info.issue.id, None)]
    /\ UNCHANGED <<confVars, repo, ledgerVars, dbLock, clock, cmd, histVars>>

\* read_issue(path): fs::read_to_string, then parse_issue; the title and the
\* body read are kept next to the ones written
read_issue(p) ==
    /\ pc[p] = "written"
    /\ LET r == parse_issue(workdir[cmd[p].info.path[2]])
       IN  /\ cmd' = [cmd EXCEPT ![p].title = r.title, ![p].body = r.body,
                                  ![p].id = r.issue.id, ![p].epic = r.issue.epic,
                                  ![p].assignee = r.issue.assignee,
                                  ![p].session = r.issue.session]
           /\ result' = [result EXCEPT ![p].out =
                            IF r.ok THEN "ok" ELSE "InvalidMarkdown"]
    /\ pc' = [pc EXCEPT ![p] = "idle"]
    /\ UNCHANGED <<confVars, gitVars, ledgerVars, dbLock, clock, histVars>>

(***************************************************************************)
(* Specifications.                                                         *)
(***************************************************************************)
\* a repository whose main branch has a first commit
ReadmeRepo ==
    [commits |-> <<[tree |-> (<<"README">> :> Blob(ReadmeContent)), parents |-> <<>>]>>,
     refs |-> [b \in Branches |-> IF b = MainBranch THEN 1 ELSE 0]]

\* the projects commands run in: Config.merge_branch absent (data-only mode),
\* the empty string or a branch name; the repository fresh from git init or
\* with a first commit on main
InitialProjects ==
    {[merge_branch |-> None, repo |-> ReadmeRepo],
     [merge_branch |-> "", repo |-> NoRepo],
     [merge_branch |-> MainBranch, repo |-> NoRepo],
     [merge_branch |-> MainBranch, repo |-> ReadmeRepo]}

\* the state after itack init in a repository with no records
Init ==
    /\ serial \in BOOLEAN
    /\ \E c \in InitialProjects : mergeBranch = c.merge_branch /\ repo = c.repo
    /\ workdir = <<>>
    /\ schemaVersion = SCHEMA_VERSION
    /\ nextIssueId = 1
    /\ claims = {}
    /\ dbLock = 0
    /\ clock = 0
    /\ pc = [p \in Procs |-> "idle"]
    /\ cmd = [p \in Procs |-> NoCmd]
    /\ result = [p \in Procs |-> NoResult]
    /\ allocated = <<>>

\* the commands' steps
OpsStep(p) ==
    \/ CreateAlloc(p)
    \/ CreatePersist(p)
    \/ ClaimLoad(p)
    \/ ClaimBegin(p)
    \/ ClaimSelect(p)
    \/ ClaimInsert(p)
    \/ ClaimPersist(p)
    \/ ReleaseLoad(p)
    \/ ReleaseDb(p)
    \/ ReleasePersist(p)
    \/ DoneLoad(p)
    \/ DonePersist(p)

NextOps == \E p \in Procs : OpsStep(p)

\* commands run by concurrent agents
InitConcurrent == Init /\ ~serial

\* processes running create, claim, release and done against a current ledger
SpecOps == InitConcurrent /\ [][NextOps]_vars

\* the commands run one at a time
InitSerial == Init /\ serial

SpecSeq == InitSerial /\ [][NextOps]_vars

DbStep(p) ==
    \/ CreateAlloc(p)
    \/ DbClaim(p)
    \/ ClaimBegin(p)
    \/ ClaimSelect(p)
    \/ ClaimInsert(p)
    \/ DbRelease(p)
    \/ ReleaseDb(p)
    \/ DbReturn(p)
    \/ Peek(p)

NextDb == \E p \in Procs : DbStep(p)

\* the ledger of a project in data-only mode, the calls made one at a time
InitDb == InitSerial /\ mergeBranch = None

\* processes calling the Database API directly, one call at a time
SpecDb == InitDb /\ [][NextDb]_vars

\* the calls are made one at a time, so one caller stands for all
GitCallers == {1}

NextGit == \E p \in GitCallers : GitCommit(p) \/ GitMerge(p)

\* the repositories of the projects that merge into main
InitGit == InitSerial /\ mergeBranch = MainBranch

\* processes calling the object-store writer and the merge directly
SpecGit == InitGit /\ [][NextGit]_vars

NextCodec == \E p \in Procs : write_issue(p) \/ read_issue(p)

\* a process about to write a record and read it back
InitCodec ==
    /\ serial = TRUE
    /\ mergeBranch = None /\ repo = ReadmeRepo
    /\ workdir = <<>>
    /\ schemaVersion = SCHEMA_VERSION
    /\ nextIssueId = 1
    /\ claims = {}
    /\ dbLock = 0
    /\ clock = 0
    /\ pc = [p \in Procs |-> "idle"]
    /\ \E issue \in CodecIssues, title \in CodecTitles, body \in CodecBodies :
         cmd = [p \in Procs |->
                   IF p = 1
                   THEN [NoCmd EXCEPT !.op = "roundtrip",
                            !.info = [issue |-> issue, title |-> title, body |-> body,
                                      path |-> issue_relative_path(issue.id,
                                                                   issue.created)]]
                   ELSE NoCmd]
    /\ result = [p \in Procs |-> NoResult]
    /\ allocated = <<>>

\* records written to a file and read back
SpecCodec == InitCodec /\ [][NextCodec]_vars

Next ==
    \/ \E p \in Procs : OpsStep(p)
    \/ \E p \in Procs : Rebuild(p)
    \/ \E p \in Procs : InitRepair(p)
    \/ LedgerLost

\* the same with the ledger lost, rebuilt on open and repaired by init
Spec == InitConcurrent /\ [][Next]_vars

\* the commands, the loss of the ledger, the rebuild and the repair, one at
\* a time
SpecRepair == InitSerial /\ [][Next]_vars

\* the commands that do not open the ledger
RecordStep(p) ==
    \/ Show(p)
    \/ SetSession(p)
    \/ Depend(p)
    \/ Undepend(p)
    \/ Edit(p)

\* the commands are run one at a time, from one shell
RecordCallers == {1}

NextRecords ==
    \E p \in RecordCallers : OpsStep(p) \/ InitRepair(p) \/ RecordStep(p)

\* every command that writes or reads a record and the repair, one at a time
SpecRecords == InitSerial /\ [][NextRecords]_vars

\* the files a data branch can hold below .itack/: for each id a dated file
\* and a legacy file, written by itack init from a project of an older
\* version, and a file that is no record
LocateNames ==
    {issue_relative_path(id, 0)[2] : id \in Ids} \cup {LegacyName(id) : id \in Ids}
        \cup {<<"notes">>}

LocateContent(n) ==
    IF n = <<"notes">> THEN OtherContent
    ELSE format_issue(IssueWithEpic(IF Len(n) = 2 THEN n[1] ELSE n[3], None, 0),
                      <<"T">>, <<>>)

\* a data branch whose tip holds some of these files
InitLocate ==
    /\ serial = TRUE
    /\ mergeBranch = None
    /\ \E names \in SUBSET LocateNames :
         repo = [commits |-> <<[tree |-> (ItackDir :>
                                             Tree([n \in names |-> Blob(LocateContent(n))])),
                                parents |-> <<>>]>>,
                 refs |-> [b \in Branches |-> IF b = DataBranch THEN 1 ELSE 0]]
    /\ workdir = <<>>
    /\ schemaVersion = SCHEMA_VERSION
    /\ nextIssueId = 1
    /\ claims = {}
    /\ dbLock = 0
    /\ clock = 0
    /\ pc = [p \in Procs |-> "idle"]
    /\ cmd = [p \in Procs |-> NoCmd]
    /\ result = [p \in Procs |-> NoResult]
    /\ allocated = <<>>

NextLocate == \E p \in Procs : Locate(p)

\* lookups on a data branch that holds dated and legacy files
SpecLocate == InitLocate /\ [][NextLocate]_vars

\* the trees of .itack/ a listing is run on: for every id no record or one
\* record of any status created on either of two days, and possibly a
\* file that does not decode
ListDirs ==
    {[n \in {issue_relative_path(id, f[id].created)[2] : id \in {i \in Ids : f[i].present}}
            \cup (IF bad THEN {<<"bad", ".md">>} ELSE {}) |->
         IF n = <<"bad", ".md">> THEN Blob(OtherContent)
         ELSE Blob(format_issue([IssueWithEpic(n[3], None, f[n[3]].created)
                                     EXCEPT !.status = f[n[3]].status],
                                <<"T">>, <<>>))]
     : f \in [Ids -> [present : BOOLEAN, created : {0, 2}, status : Status]],
       bad \in BOOLEAN}

\* a data branch whose tip holds such a tree
InitList ==
    /\ serial = TRUE
    /\ mergeBranch = None
    /\ \E dir \in ListDirs :
         repo = [commits |-> <<[tree |-> (ItackDir :> Tree(dir)), parents |-> <<>>]>>,
                 refs |-> [b \in Branches |-> IF b = DataBranch THEN 1 ELSE 0]]
    /\ workdir = <<>>
    /\ schemaVersion = SCHEMA_VERSION
    /\ nextIssueId = 1
    /\ claims = {}
    /\ dbLock = 0
    /\ clock = 0
    /\ pc = [p \in Procs |-> "idle"]
    /\ cmd = [p \in Procs |-> NoCmd]
    /\ result = [p \in Procs |-> NoResult]
    /\ allocated = <<>>

NextList == \E p \in Procs : List(p)

\* listings of a data branch
SpecList == InitList /\ [][NextList]_vars

\* concurrent agents in a project whose ledger is absent (a fresh clone) or
\* of another schema version: no rows, no counter
InitOpen ==
    /\ serial = FALSE
    /\ \E c \in InitialProjects : mergeBranch = c.merge_branch /\ repo = c.repo
    /\ workdir = <<>>
    /\ schemaVersion \in {0, SCHEMA_VERSION + 1}
    /\ nextIssueId = 1
    /\ claims = {}
    /\ dbLock = 0
    /\ clock = 0
    /\ pc = [p \in Procs |-> "idle"]
    /\ cmd = [p \in Procs |-> NoCmd]
    /\ result = [p \in Procs |-> NoResult]
    /\ allocated = <<>>

NextOpen == \E p \in Procs : OpenCheck(p) \/ OpenRebuild(p) \/ OpsStep(p)

\* commands of concurrent agents whose opens find the ledger absent or stale
SpecOpen == InitOpen /\ [][NextOpen]_vars

NextLifecycle ==
    \E p \in Procs :
        \/ OpenCheck(p) \/ OpenRebuild(p) \/ OpsStep(p)
        \/ InitRepair(p) \/ Peek(p) \/ ListClaims(p)

\* the same agents, with the ledger also read and repaired by init
SpecLifecycle == InitOpen /\ [][NextLifecycle]_vars

\* commands run one at a time from late in a day on: the date changes at
\* the next reading of the clock but one
InitLateDay ==
    /\ serial = TRUE
    /\ \E c \in InitialProjects : mergeBranch = c.merge_branch /\ repo = c.repo
    /\ workdir = <<>>
    /\ schemaVersion = SCHEMA_VERSION
    /\ nextIssueId = 1
    /\ claims = {}
    /\ dbLock = 0
    /\ clock = 1
    /\ pc = [p \in Procs |-> "idle"]
    /\ cmd = [p \in Procs |-> NoCmd]
    /\ result = [p \in Procs |-> NoResult]
    /\ allocated = <<>>


NextWriters == \E p \in Procs : CommitRead(p) \/ CommitWrite(p)

\* concurrent calls of commit_to_branch on the data branch
SpecWriters == InitConcurrent /\ [][NextWriters]_vars

NextHolders ==
    \E p \in Procs :
        \/ CreateAlloc(p) \/ CreatePersist(p)
        \/ ClaimLoad(p) \/ ClaimBegin(p) \/ ClaimSelect(p) \/ ClaimInsert(p)
        \/ ClaimPersist(p)
        \/ DoneLoad(p) \/ DonePersist(p)
        \/ InitRepair(p)

\* concurrent agents that create, claim, finish and repair and never release
SpecHolders == InitConcurrent /\ [][NextHolders]_vars

\* creates, claims, finishes and repairs, one at a time, across a change of
\* date
SpecLateDay == InitLateDay /\ [][NextHolders]_vars

(***************************************************************************)
(* Properties of the claim ledger.                                         *)
(***************************************************************************)
\* the two results are of calls of Database::claim for one id that overlapped
\* while the ledger had no row for the id, and both calls have returned
RacedClaims(p, q) ==
    /\ result[p].op = "claim" /\ result[q].op = "claim"
    /\ result[p].id = result[q].id
    /\ result[p].race /\ result[q].race
    /\ result[p].db # "none" /\ result[q].db # "none"

\* C1: of two concurrent calls claim(id, A) and claim(id, B) made while no row
\* for id exists, exactly one succeeds, the other fails with AlreadyClaimed
\* naming id and the winner's assignee, and the ledger ends with exactly one
\* row for id, the winner's.
C1_ConcurrentClaimOneWinner ==
    \A p \in Procs : \A q \in Procs \ {p} :
        RacedClaims(p, q) =>
            /\ result[p].db = "ok" \/ result[q].db = "ok"
            /\ result[p].db = "ok" =>
                 /\ result[q].db = "AlreadyClaimed"
                 /\ result[q].who = result[p].assignee
                 /\ \E r \in claims :
                      /\ RowsFor(claims, result[p].id) = {r}
                      /\ r.assignee = result[p].assignee

\* two agents raced for one id: one won, the other was refused
C1_Witness ==
    \E p \in Procs : \E q \in Procs \ {p} :
        /\ RacedClaims(p, q)
        /\ result[p].db = "ok" /\ result[q].db = "AlreadyClaimed"
        /\ result[p].assignee # result[q].assignee

\* C2: a claim command for an id whose row (id, A) the ledger holds fails with
\* AlreadyClaimed naming id and A, and no step of the command up to that
\* failure changes the claims table, the repository or the working directory.
C2_RefusedClaimChangesNothing ==
    [][\A p \in Procs :
         /\ (\/ pc[p] = "idle" /\ result'[p].op = "claim" /\ result'[p] # result[p]
             \/ pc[p] = "claim_begin" /\ pc'[p] # "claim_begin"
             \/ pc[p] = "claim_select" /\ pc'[p] # "claim_select")
            => UNCHANGED <<claims, repo, workdir>>
         /\ (pc[p] = "claim_select" /\ pc'[p] # "claim_select") =>
              (RowsFor(claims, cmd[p].id) # {}) = (result'[p].out = "AlreadyClaimed")
         /\ (result[p].out = "running" /\ result'[p].out = "AlreadyClaimed") =>
              \E r \in claims' :
                 /\ RowsFor(claims', result'[p].id) = {r}
                 /\ result'[p].who = r.assignee
                 /\ result'[p].db = "AlreadyClaimed"
       ]_vars

\* agent B was refused an id that agent A holds
C2_Witness ==
    \E p \in Procs : \E r \in claims :
        /\ result[p].op = "claim" /\ result[p].out = "AlreadyClaimed"
        /\ r.issue_id = result[p].id /\ r.assignee = result[p].who
        /\ result[p].assignee # r.assignee
        /\ ~result[p].race

\* C3: two create commands running concurrently hold distinct ids from
\* next_issue_id, whatever the interleaving.
C3_ConcurrentCreatesDistinctIds ==
    \A p \in Procs : \A q \in Procs \ {p} :
        /\ (pc[p] = "create_persist" /\ pc[q] = "create_persist")
              => cmd[p].id # cmd[q].id
        /\ (result[p].op = "create" /\ result[q].op = "create")
              => result[p].value # result[q].value

\* both creates hold their ids and neither has written its record
C3_Witness ==
    /\ \A p \in Procs : pc[p] = "create_persist"
    /\ {cmd[p].id : p \in Procs} = {1, 2}

\* C4: next_issue_id returns the counter's value before the increment and
\* raises the counter by exactly one, so the calls on a fresh ledger return
\* 1, 2, ... in order; peek_next_issue_id then returns the counter, one more
\* than the last id returned, and leaves the counter as it is.
C4_CounterSequence ==
    /\ [](/\ allocated = [i \in 1 .. Len(allocated) |-> i]
          /\ nextIssueId = Len(allocated) + 1)
    /\ [][\A p \in Procs :
            /\ (pc[p] = "idle" /\ pc'[p] = "create_persist") =>
                 /\ result'[p].value = nextIssueId
                 /\ allocated' = Append(allocated, nextIssueId)
                 /\ nextIssueId' = nextIssueId + 1
            /\ (result'[p].op = "peek" /\ result'[p] # result[p]) =>
                 /\ result'[p].value = Len(allocated) + 1
                 /\ nextIssueId' = nextIssueId
         ]_vars

\* two calls returned 1 and 2 and the peek after them returned 3
C4_Witness ==
    /\ allocated = <<1, 2>>
    /\ nextIssueId = 3
    /\ \E p \in Procs : result[p].op = "peek" /\ result[p].value = 3

\* the ids of the records on the data branch
DataBranchIds == {i.issue.id : i \in BranchIssues(repo, DataBranch)}

C6_ReleaseUnclaimedChangesNothing ==
    [][\A p \in Procs :
         /\ (pc[p] = "idle" /\ result'[p].op = "release" /\ result'[p] # result[p])
              => UNCHANGED <<claims, repo, workdir>>
         /\ (pc[p] = "release_db" /\ pc'[p] # "release_db") =>
              /\ (RowsFor(claims, cmd[p].id) = {}) = (result'[p].out = "NotClaimed")
              /\ UNCHANGED <<repo, workdir>>
              /\ RowsFor(claims, cmd[p].id) = {} =>
                   /\ result'[p].db = "NotClaimed"
                   /\ result'[p].id = cmd[p].id
                   /\ pc'[p] = "idle"
                   /\ claims' = claims
       ]_vars

\* a release of an existing, unclaimed issue was refused while another issue
\* is claimed
C6_Witness ==
    \E p \in Procs :
        /\ result[p].op = "release" /\ result[p].out = "NotClaimed"
        /\ RowsFor(claims, result[p].id) = {}
        /\ claims # {}
        /\ result[p].id \in DataBranchIds

\* C7: once claim(id, A) and then release(id) have succeeded the ledger has no
\* row for id, and the claim(id, B) that follows succeeds and leaves exactly
\* the row (id, B).
C7_ClaimAfterRelease ==
    [][\A p \in Procs :
         /\ (pc[p] = "release_db" /\ pc'[p] = "release_persist") =>
              /\ RowsFor(claims', cmd[p].id) = {}
              /\ claims' = claims \ RowsFor(claims, cmd[p].id)
         /\ (pc[p] = "claim_select" /\ pc'[p] # "claim_select"
                /\ RowsFor(claims, cmd[p].id) = {}) => pc'[p] = "claim_insert"
         /\ (pc[p] = "claim_insert" /\ pc'[p] # "claim_insert") =>
              /\ result'[p].db = "ok"
              /\ RowsFor(claims, cmd[p].id) = {}
              /\ RowsFor(claims', cmd[p].id) =
                     {[issue_id |-> cmd[p].id, assignee |-> cmd[p].assignee,
                       claimed_at |-> clock]}
       ]_vars

\* agent-1 claimed id 1 first, the claim was released, and agent-2 now holds
\* the only row for id 1
C7_Witness ==
    \E p \in Procs : \E q \in Procs \ {p} :
        /\ result[p].op = "release" /\ result[p].id = 1 /\ result[p].out = "ok"
        /\ result[q].op = "claim" /\ result[q].id = 1 /\ result[q].out = "ok"
        /\ result[q].assignee = "agent-2"
        /\ claims = {[issue_id |-> 1, assignee |-> "agent-2", claimed_at |-> 1]}

(***************************************************************************)
(* Properties of the commands' record updates.                             *)
(***************************************************************************)
\* the records with the given id on the data branch of repository r
RecordsOf(r, id) == {i \in BranchIssues(r, DataBranch) : i.issue.id = id}

\* the record b differs from the record a in nothing but the claim fields
\* and the status
SameButClaimAndStatus(a, b) ==
    /\ b.issue.id = a.issue.id
    /\ b.issue.created = a.issue.created
    /\ b.issue.epic = a.issue.epic
    /\ b.issue.depends_on = a.issue.depends_on
    /\ b.title = a.title
    /\ b.body = a.body
    /\ b.path = a.path

\* C8: a claim command that succeeds writes a new version of the record with
\* the assignee and the session given, the branch currently checked out, and
\* the status in-progress when it was open and as it was otherwise; id,
\* created, epic, depends_on, title and body stay as they were, and the ledger
\* holds exactly one claim row for the id.  The command runs with no other
\* command in progress; "as it was" is the record on the data branch before.
C8_ClaimWritesRecord ==
    [][\A p \in Procs :
         (pc[p] = "claim_persist" /\ result'[p].out = "ok") =>
            \E a \in RecordsOf(repo, cmd[p].id) : \E b \in RecordsOf(repo', cmd[p].id) :
               /\ RecordsOf(repo, cmd[p].id) = {a}
               /\ RecordsOf(repo', cmd[p].id) = {b}
               /\ b.issue.assignee = cmd[p].assignee
               /\ b.issue.session = cmd[p].session
               /\ b.issue.branch = current_branch(repo)
               /\ b.issue.status = IF a.issue.status = "open" THEN "in-progress"
                                    ELSE a.issue.status
               /\ SameButClaimAndStatus(a, b)
               /\ \E r \in claims' :
                    /\ RowsFor(claims', cmd[p].id) = {r}
                    /\ r.assignee = cmd[p].assignee
       ]_vars

\* agent-1 claimed an open issue from the main branch in its session
C8_Witness ==
    \E p \in Procs : \E b \in RecordsOf(repo, result[p].id) :
        /\ result[p].op = "claim" /\ result[p].out = "ok"
        /\ b.issue.assignee = "agent-1" /\ b.issue.session = "s1"
        /\ b.issue.branch = MainBranch /\ b.issue.status = "in-progress"
        /\ b.issue.epic = "MVP" /\ b.body # <<>>
        /\ RowsFor(claims, result[p].id) # {}

\* C9: a release that succeeds removes the claim row and writes a new version
\* of the record with assignee, branch and session cleared; status, id,
\* created, epic, depends_on, title and body stay as they were.  The command
\* runs with no other command in progress.
C9_ReleaseClearsClaimFields ==
    [][\A p \in Procs :
         /\ (pc[p] = "release_db" /\ pc'[p] = "release_persist") =>
              RowsFor(claims', cmd[p].id) = {}
         /\ (pc[p] = "release_persist" /\ result'[p].out = "ok") =>
              \E a \in RecordsOf(repo, cmd[p].id) :
              \E b \in RecordsOf(repo', cmd[p].id) :
                 /\ RecordsOf(repo, cmd[p].id) = {a}
                 /\ RecordsOf(repo', cmd[p].id) = {b}
                 /\ b.issue.assignee = None
                 /\ b.issue.branch = None
                 /\ b.issue.session = None
                 /\ b.issue.status = a.issue.status
                 /\ SameButClaimAndStatus(a, b)
                 /\ RowsFor(claims', cmd[p].id) = {}
       ]_vars

\* an issue claimed in a session from the main branch was released: its
\* record is in progress with no claim fields, and the ledger has no row
C9_Witness ==
    \E p \in Procs : \E b \in RecordsOf(repo, result[p].id) :
        /\ result[p].op = "release" /\ result[p].out = "ok"
        /\ b.issue.assignee = None /\ b.issue.session = None
        /\ b.issue.branch = None /\ b.issue.status = "in-progress"
        /\ b.issue.epic = "MVP"
        /\ RowsFor(claims, result[p].id) = {}
        /\ current_branch(repo) = MainBranch

(***************************************************************************)
(* Properties of the object-store writer.                                  *)
(***************************************************************************)
\* C10: commit_to_branch with the bytes the branch's tip already has at the
\* path creates no commit, returns None and leaves the reference where it
\* was; so of two calls in a row with the same arguments at most the first
\* creates a commit.
C10_IdenticalContentNoCommit ==
    \A b \in Branches : \A path \in GitPaths : \A content \in GitContents :
        LET e == TreeGetPath(TipTree(repo, b), path)
            once == commit_to_branch(repo, b, path, content)
            twice == commit_to_branch(once.repo, b, path, content)
        IN  /\ (repo.refs[b] # 0 /\ e.kind = "blob" /\ e.obj = content) =>
                 /\ once.oid = 0
                 /\ once.repo = repo
            /\ twice.oid = 0
            /\ twice.repo = once.repo
            /\ Len(twice.repo.commits) <= Len(repo.commits) + 1

\* a call found its content on the tip and returned None
C10_Witness ==
    \E p \in Procs :
        /\ result[p].op = "commit" /\ result[p].out = "ok" /\ result[p].value = 0
        /\ repo.refs[DataBranch] # 0

\* C11: when the branch's tip does not have the given content at the given
\* path, commit_to_branch adds one commit and leaves the older ones as they
\* were; the branch points at the new commit, the new commit's tree has the
\* content at the path, and its parents are the previous tip alone, or none
\* when the branch did not exist.
C11_CommitAdvancesBranch ==
    \A b \in Branches : \A path \in GitPaths : \A content \in GitContents :
        LET prev == repo.refs[b]
            c == commit_to_branch(repo, b, path, content)
        IN  (prev = 0 \/ TreeGetPath(TipTree(repo, b), path) # Blob(content)) =>
                /\ c.oid = Len(repo.commits) + 1
                /\ Len(c.repo.commits) = c.oid
                /\ SubSeq(c.repo.commits, 1, Len(repo.commits)) = repo.commits
                /\ c.repo.refs[b] = c.oid
                /\ TreeGetPath(c.repo.commits[c.oid].tree, path) = Blob(content)
                /\ c.repo.commits[c.oid].parents =
                       IF prev = 0 THEN <<>> ELSE <<prev>>

\* a call advanced the data branch from an orphan first commit to a second
\* commit on top of it
C11_Witness ==
    \E p \in Procs :
        /\ result[p].op = "commit" /\ result[p].value # 0
        /\ repo.refs[DataBranch] = result[p].value
        /\ Len(repo.commits[result[p].value].parents) = 1
        /\ repo.commits[repo.commits[result[p].value].parents[1]].parents = <<>>

RECURSIVE Files(_)
\* the paths of the files of a tree, at every nesting level
Files(tree) ==
    UNION {IF tree[n].kind = "blob" THEN {<<n>>}
           ELSE {<<n>> \o q : q \in Files(tree[n].obj)} : n \in DOMAIN tree}

\* C12: commit_to_branch leaves every other file of the branch's tree as it
\* was: a path other than the written one has a file in the new tip exactly
\* when it had one in the previous tip, with the same content, at the root
\* and below directories alike.
C12_OtherEntriesUnchanged ==
    \A b \in Branches : \A path \in GitPaths : \A content \in GitContents :
        LET old == TipTree(repo, b)
            new == TipTree(commit_to_branch(repo, b, path, content).repo, b)
        IN  /\ \A q \in (Files(old) \cup Files(new) \cup GitPaths) \ {path} :
                   TreeGetPath(new, q) = TreeGetPath(old, q)
            /\ Files(new) = Files(old) \cup {path}

\* a call wrote a file below .itack on a tip that has another file there and
\* a file at the root
C12_Witness ==
    \E p \in Procs :
        /\ result[p].op = "commit" /\ result[p].value # 0
        /\ repo.refs[DataBranch] = result[p].value
        /\ Cardinality(Files(TipTree(repo, DataBranch))) = 3
        /\ LET parent == repo.commits[result[p].value].parents[1]
           IN  Cardinality(Files(repo.commits[parent].tree)) = 2

\* C13: commit_to_branch moves no reference but the named branch's and only
\* adds commits to the ones there are, whether it commits or not; the step
\* that calls it leaves the working directory, the branch HEAD names and the
\* ledger as they were.
C13_CommitTouchesOnlyBranchRef ==
    /\ [](\A b \in Branches : \A path \in GitPaths : \A content \in GitContents :
            LET c == commit_to_branch(repo, b, path, content)
            IN  /\ \A other \in Branches \ {b} :
                       c.repo.refs[other] = repo.refs[other]
                /\ SubSeq(c.repo.commits, 1, Len(repo.commits)) = repo.commits
                /\ c.oid = 0 => c.repo = repo
                /\ b # MainBranch => current_branch(c.repo) = current_branch(repo))
    /\ [][\A p \in GitCallers :
             (result'[p].op = "commit" /\ result'[p] # result[p]) =>
                 /\ workdir' = workdir
                 /\ UNCHANGED <<ledgerVars, dbLock>>
                 /\ \E b \in Branches : \A other \in Branches \ {b} :
                        repo'.refs[other] = repo.refs[other]]_vars

\* a call committed to the data branch while main stayed at another commit
C13_Witness ==
    \E p \in Procs :
        /\ result[p].op = "commit" /\ result[p].value # 0
        /\ repo.refs[DataBranch] = result[p].value
        /\ repo.refs[MainBranch] \notin {0, result[p].value}

(***************************************************************************)
(* Properties of the merge.                                                *)
(***************************************************************************)
\* C14: when the target branch does not exist, or its tip is a strict
\* ancestor of the source's tip, merge_branches succeeds, returns the
\* source's tip, points the target at it, creates no commit and leaves the
\* source where it was.
C14_MergeFastForward ==
    \A source \in Branches : \A target \in Branches \ {source} :
        LET s == repo.refs[source]
            t == repo.refs[target]
            m == merge_branches(repo, source, target)
        IN  (s # 0 /\ (t = 0 \/ t \in Ancestors(repo, s))) =>
                /\ m.err = None
                /\ m.oid = s
                /\ m.repo.refs[target] = s
                /\ m.repo.refs[source] = s
                /\ m.repo.commits = repo.commits

\* a merge brought main to the data branch's second commit, which is no
\* merge commit
C14_Witness ==
    \E p \in Procs :
        /\ result[p].op = "merge" /\ result[p].out = "ok"
        /\ result[p].value = repo.refs[DataBranch]
        /\ repo.refs[MainBranch] = repo.refs[DataBranch]
        /\ LET c == repo.commits[result[p].value]
           IN  Len(c.parents) = 1 /\ repo.commits[c.parents[1]].parents = <<>>

\* C15: after a successful merge_branches(source, target), the same call made
\* again at once succeeds, creates no commit, leaves both references where
\* they were and returns the target's tip.
C15_MergeTwiceIsMergeOnce ==
    \A source \in Branches : \A target \in Branches \ {source} :
        LET once == merge_branches(repo, source, target)
            twice == merge_branches(once.repo, source, target)
        IN  once.err = None =>
                /\ twice.err = None
                /\ twice.repo.commits = once.repo.commits
                /\ twice.repo.refs = once.repo.refs
                /\ twice.oid = once.repo.refs[target]

\* the tips have diverged: neither is the other or an ancestor of the other,
\* and they have a common ancestor
Diverged(r, s, t) ==
    /\ s # 0 /\ t # 0 /\ s # t
    /\ s \notin Ancestors(r, t) /\ t \notin Ancestors(r, s)
    /\ merge_base(r, s, t) # 0

\* the files the two tips changed differently from the merge base
ConflictingFiles(r, s, t) ==
    LET base == r.commits[merge_base(r, s, t)].tree
        ours == r.commits[t].tree
        theirs == r.commits[s].tree
    IN  {q \in Files(base) \cup Files(ours) \cup Files(theirs) :
            /\ TreeGetPath(ours, q) # TreeGetPath(theirs, q)
            /\ TreeGetPath(ours, q) # TreeGetPath(base, q)
            /\ TreeGetPath(theirs, q) # TreeGetPath(base, q)}

\* C16: when the tips have diverged and some file was changed differently on
\* both sides, merge_branches fails with MergeConflict carrying the source's
\* and the target's name and leaves the repository as it was; the step that
\* calls it changes neither a reference, nor a commit, nor the working
\* directory.
C16_MergeConflictChangesNothing ==
    /\ [](\A source \in Branches : \A target \in Branches \ {source} :
            LET s == repo.refs[source]
                t == repo.refs[target]
                m == merge_branches(repo, source, target)
            IN  (Diverged(repo, s, t) /\ ConflictingFiles(repo, s, t) # {}) =>
                    /\ m.err = "MergeConflict"
                    /\ m.names = <<source, target>>
                    /\ m.oid = 0
                    /\ m.repo = repo)
    /\ [][\A p \in GitCallers :
             (result'[p].out = "MergeConflict" /\ result'[p] # result[p]) =>
                 UNCHANGED <<repo, workdir, ledgerVars>>]_vars

\* a merge of diverged branches that both wrote a file failed on the conflict
C16_Witness ==
    \E p \in Procs :
        /\ result[p].op = "merge" /\ result[p].out = "MergeConflict"
        /\ Diverged(repo, repo.refs[DataBranch], repo.refs[MainBranch])
        /\ ConflictingFiles(repo, repo.refs[DataBranch], repo.refs[MainBranch]) # {}

\* C17: when the tips have diverged and no file was changed differently on
\* both sides, merge_branches adds one commit whose parents are the previous
\* target tip and the source tip, in that order, points the target at it and
\* leaves the source where it was; the source's tip is then an ancestor of
\* the target's.  The merged tree has every file as the side that changed it
\* left it.
C17_MergeCommitParents ==
    \A source \in Branches : \A target \in Branches \ {source} :
        LET s == repo.refs[source]
            t == repo.refs[target]
            m == merge_branches(repo, source, target)
            base == repo.commits[merge_base(repo, s, t)].tree
            ours == repo.commits[t].tree
            theirs == repo.commits[s].tree
            merged == m.repo.commits[m.oid].tree
        IN  (Diverged(repo, s, t) /\ ConflictingFiles(repo, s, t) = {}) =>
                /\ m.err = None
                /\ m.oid = Len(repo.commits) + 1
                /\ Len(m.repo.commits) = m.oid
                /\ SubSeq(m.repo.commits, 1, Len(repo.commits)) = repo.commits
                /\ m.repo.commits[m.oid].parents = <<t, s>>
                /\ m.repo.refs[target] = m.oid
                /\ m.repo.refs[source] = s
                /\ graph_descendant_of(m.repo, m.repo.refs[target], m.repo.refs[source])
                /\ \A q \in Files(base) \cup Files(ours) \cup Files(theirs) \cup Files(merged) :
                       TreeGetPath(merged, q) =
                           IF TreeGetPath(ours, q) # TreeGetPath(base, q)
                           THEN TreeGetPath(ours, q) ELSE TreeGetPath(theirs, q)

\* a merge of diverged branches made main a merge commit on top of its
\* previous tip and the data branch's tip
C17_Witness ==
    \E p \in Procs :
        /\ result[p].op = "merge" /\ result[p].out = "ok"
        /\ result[p].value = repo.refs[MainBranch]
        /\ Len(repo.commits[result[p].value].parents) = 2
        /\ repo.commits[result[p].value].parents[2] = repo.refs[DataBranch]
        /\ repo.commits[result[p].value].parents[1] # repo.refs[DataBranch]

(***************************************************************************)
(* Properties of rebuild and repair.                                       *)
(***************************************************************************)
\* the (id, assignee) pairs of the records on the data branch that have an
\* assignee
DataBranchAssignees(r) ==
    {<<i.issue.id, i.issue.assignee>> :
        i \in {j \in BranchIssues(r, DataBranch) : j.issue.assignee # None}}

\* the (id, assignee) pairs of the rows of the claims table
ClaimPairs(rows) == {<<c.issue_id, c.assignee>> : c \in rows}

Orders(S) ==
    {o \in [1 .. Cardinality(S) -> S] : \A i, j \in DOMAIN o : o[i] = o[j] => i = j}

RECURSIVE ScanLoop(_, _, _, _)
\* the scan loop of create_or_rebuild and repair_state over the files in the
\* order given, from empty tables: max_id = max_id.max(issue.id) and INSERT OR
\* REPLACE INTO claims for a file with an assignee; [claims, next_issue_id]
ScanLoop(wd, order, rows, max_id) ==
    IF order = <<>> THEN [claims |-> rows, next_issue_id |-> max_id + 1]
    ELSE LET n == Head(order)
             issue == ScannedIssue(wd, n)
             row == [issue_id |-> issue.id, assignee |-> issue.assignee,
                     claimed_at |-> issue.created]
         IN  IF ~parse_issue(wd[n]).ok THEN ScanLoop(wd, Tail(order), rows, max_id)
             ELSE ScanLoop(wd, Tail(order),
                           IF issue.assignee = None THEN rows
                           ELSE {r \in rows : r.issue_id # issue.id} \cup {row},
                           IF issue.id > max_id THEN issue.id ELSE max_id)

\* C19: the ledger a rebuild or a repair leaves is the one the scan loop
\* computes from the record files alone, the same in whatever order the files
\* are listed; so a second run over the same files leaves the same claims and
\* the same next_issue_id.
C19_RebuildDeterministic ==
    /\ [](LET one == CHOOSE o \in Orders(DOMAIN workdir) : TRUE
               a == ScanLoop(workdir, one, {}, 0)
           IN  \A other \in Orders(DOMAIN workdir) :
                   LET b == ScanLoop(workdir, other, {}, 0)
                   IN  /\ ClaimPairs(a.claims) = ClaimPairs(b.claims)
                       /\ a.next_issue_id = b.next_issue_id)
    /\ [][\A p \in Procs :
             (result'[p].op \in {"rebuild", "repair"} /\ result'[p] # result[p]) =>
                 \A o \in Orders(DOMAIN workdir') :
                     LET again == ScanLoop(workdir', o, {}, 0)
                     IN  /\ ClaimPairs(again.claims) = ClaimPairs(claims')
                         /\ again.next_issue_id = nextIssueId'
                         /\ workdir' = workdir]_vars

\* a rebuild or a repair scanned two record files, one of them assigned
C19_Witness ==
    \E p \in Procs :
        /\ result[p].op \in {"rebuild", "repair"}
        /\ Cardinality(ScanFiles(workdir)) = 2
        /\ Cardinality(claims) = 1
        /\ nextIssueId = 3
        /\ \E o \in Orders(DOMAIN workdir) :
               claims = ScanLoop(workdir, o, {}, 0).claims

(***************************************************************************)
(* Properties of the record codec.                                         *)
(***************************************************************************)
\* the record a process wrote and read back: what it wrote, what it read
Written(p) == cmd[p].info
ReadBack(p) == parse_issue(workdir[cmd[p].info.path[2]])

\* the process has written its record and read it back
RoundTripDone(p) == result[p].op = "roundtrip" /\ result[p].out # "running"

\* C20: a record written with format_issue and read back with parse_issue
\* is read as it was written: the read succeeds and yields the same issue
\* fields, the same title and the same body.
C20_RoundTrip ==
    \A p \in Procs :
        RoundTripDone(p) =>
            /\ result[p].out = "ok"
            /\ ReadBack(p).issue = Written(p).issue
            /\ cmd[p].title = Written(p).title
            /\ cmd[p].body = Written(p).body

\* C21: encoding what was decoded gives the text back: for every text x that
\* format_issue produced, parse_issue(x) succeeds and format_issue applied to
\* the issue, title and body it returns yields x, so that committing the
\* re-encoded record at its path on a data branch that holds x creates no
\* commit.
C21_ReencodeIdentical ==
    \A p \in Procs :
        RoundTripDone(p) =>
            LET path == Written(p).path
                x == workdir[path[2]]
                r == ReadBack(p)
                again == format_issue(r.issue, r.title, r.body)
                stored == commit_to_branch(repo, DataBranch, path, x).repo
            IN  /\ r.ok
                /\ again = x
                /\ commit_to_branch(stored, DataBranch, path, again).oid = 0

(***************************************************************************)
(* Properties of the commands over the stored records.                     *)
(***************************************************************************)
\* the id resolves to a file on the data branch of repository r
Resolves(r, id) == find_issue_file_in_branch(r, DataBranch, id).err = None

\* C22: a record is never deleted: whatever create, claim, release, done,
\* depend, undepend, set-session, edit, the repair and the merges they run
\* do, an id that resolves to a file on the data branch still resolves to a
\* file there after the step, and every file of the data branch's tip is
\* still a file of the tip.
C22_RecordsNeverDeleted ==
    [][/\ \A id \in Ids : Resolves(repo, id) => Resolves(repo', id)
       /\ Files(TipTree(repo, DataBranch)) \subseteq Files(TipTree(repo', DataBranch))
      ]_vars

\* two records are on the data branch and the one created first was edited
\* after the second was created
C22_Witness ==
    \E p \in Procs :
        /\ result[p].op = "edit" /\ result[p].out = "ok" /\ result[p].id = 1
        /\ \A id \in Ids : Resolves(repo, id)
        /\ Len(repo.commits) >= 3
        /\ \E i \in BranchIssues(repo, DataBranch) :
               i.issue.id = 1 /\ i.body = EditedBody

C24_FailedCommandChangesNothing ==
    [][\A p \in Procs :
         (/\ result'[p].op \in {"create", "claim", "release", "done"}
          /\ result'[p] # result[p]
          /\ result'[p].out \notin {"ok", "running"}) =>
             /\ repo'.refs[DataBranch] = repo.refs[DataBranch]
             /\ claims' = claims
             /\ result'[p].op \in {"claim", "release"} => result'[p].db # "ok"
      ]_vars

\* C25: claim, release, done and edit compute the version they write from
\* the version at the data branch's tip, with and without a merge branch:
\* when one of them advances the data branch, the record it wrote has the
\* title, the creation time, the epic and the dependencies the record had at
\* the tip before, and the body it had there, or for edit the body typed in
\* the editor.
C25_NewVersionFromDataBranch ==
    [][\A p \in Procs :
         (/\ result'[p] # result[p]
          /\ result'[p].op \in {"claim", "release", "done", "edit"}
          /\ repo'.refs[DataBranch] # repo.refs[DataBranch]) =>
             \E a \in RecordsOf(repo, result'[p].id) :
             \E b \in RecordsOf(repo', result'[p].id) :
                /\ RecordsOf(repo, result'[p].id) = {a}
                /\ RecordsOf(repo', result'[p].id) = {b}
                /\ b.title = a.title
                /\ b.issue.created = a.issue.created
                /\ b.issue.epic = a.issue.epic
                /\ b.issue.depends_on = a.issue.depends_on
                /\ b.body \in (IF result'[p].op = "edit" THEN {a.body, EditedBody}
                               ELSE {a.body})
      ]_vars

\* C26: a command exits with 2 exactly when it is a claim that the ledger
\* refuses because a row for the issue exists (AlreadyClaimed), with 0
\* exactly when it succeeds, and with 1 for every other error.
C26_ExitCodes ==
    [][\A p \in Procs :
         (result'[p] # result[p] /\ result'[p].out \notin {"none", "running"}) =>
            LET code == ExitCode(result'[p].out)
                conflict == /\ pc[p] = "claim_select"
                            /\ RowsFor(claims, cmd[p].id) # {}
            IN  /\ code \in {0, 1, 2}
                /\ code = 2 <=> conflict
                /\ code = 2 <=> result'[p].out = "AlreadyClaimed"
                /\ code = 0 <=> result'[p].out = "ok"
                /\ conflict => result'[p].who \in {r.assignee : r \in claims}
      ]_vars

\* a refused claim has exited with 2
C26_Witness ==
    \E p \in Procs :
        /\ result[p].op = "claim"
        /\ result[p].out = "AlreadyClaimed"
        /\ ExitCode(result[p].out) = 2
        /\ claims # {}

\* C27: a lookup of an id on the data branch returns a file of .itack/ whose
\* name ends with the id's suffix when there is one, otherwise the legacy
\* file <id>.md when there is one, otherwise IssueNotFound; the file found
\* is never that of another id.
C27_LocateBySuffixOrLegacy ==
    \A p \in Procs :
        result[p].op = "locate" =>
            LET id == result[p].id
                tree == TipTree(repo, DataBranch)
                dir == IF ItackDir \in DOMAIN tree THEN tree[ItackDir].obj ELSE EmptyTree
                dated == {n \in DOMAIN dir : EndsWith(n, IssueSuffix(id))}
                path == cmd[p].info.path
            IN  /\ dated # {} =>
                       /\ result[p].out = "ok"
                       /\ \E n \in dated : path = <<ItackDir, n>>
                /\ (dated = {} /\ LegacyName(id) \in DOMAIN dir) =>
                       /\ result[p].out = "ok"
                       /\ path = <<ItackDir, LegacyName(id)>>
                /\ (dated = {} /\ LegacyName(id) \notin DOMAIN dir) =>
                       result[p].out = "IssueNotFound"
                /\ result[p].out = "ok" =>
                       parse_issue(TreeGetPath(tree, path).obj).issue.id = id

\* C28: when show or set-session has completed, the record's file in the
\* working directory has the content it has at the tip of the checked-out
\* branch if it is tracked there, and does not exist otherwise.
C28_WorkingCopyMatchesCheckout ==
    [][\A p \in Procs :
         (/\ result'[p] # result[p]
          /\ result'[p].op \in {"show", "set-session"}
          /\ result'[p].out = "ok") =>
             LET path == find_issue_file_in_branch(repo', DataBranch, result'[p].id).path
                 e == TreeGetPath(TipTree(repo', MainBranch), path)
             IN  IF e.kind = "blob"
                 THEN path[2] \in DOMAIN workdir' /\ workdir'[path[2]] = e.obj
                 ELSE path[2] \notin DOMAIN workdir'
      ]_vars

\* C29: a listing of the data branch holds every record that decodes exactly
\* once, the in-progress ones before the open ones before the done ones
\* before the wontfix ones and, within one status, in ascending order of id,
\* whatever the order of the files in the tree.
C29_ListOrder ==
    \A p \in Procs :
        result[p].op = "list" =>
            LET l == result[p].value
                records == BranchIssues(repo, DataBranch)
                order == <<"in-progress", "open", "done", "wontfix">>
                Rank(i) == CHOOSE k \in DOMAIN order : order[k] = l[i].issue.status
            IN  /\ {l[i] : i \in DOMAIN l} = records
                /\ Len(l) = Cardinality(records)
                /\ \A i, j \in DOMAIN l :
                      i < j => \/ Rank(i) < Rank(j)
                               \/ Rank(i) = Rank(j) /\ l[i].issue.id < l[j].issue.id

\* a listing of an open record and an in-progress record with the larger
\* id, next to a file that does not decode
C29_Witness ==
    \E p \in Procs :
        /\ result[p].op = "list"
        /\ Len(result[p].value) = 2
        /\ result[p].value[1].issue.id = 2
        /\ result[p].value[1].issue.status = "in-progress"
        /\ result[p].value[2].issue.status = "open"
        /\ Cardinality(DOMAIN TipTree(repo, DataBranch)[ItackDir].obj) = 3

\* C30: of the processes that found the ledger absent or stale, the one whose
\* transaction still finds it so rebuilds it; a process whose transaction
\* finds the current version leaves the ledger as it is. So the counter never
\* goes back, no identifier is allocated twice, and a claim row goes away
\* only by a release of its issue.
C30_OneRebuild ==
    [][/\ \A p \in Procs :
            (pc[p] = "open_rebuild" /\ pc'[p] = "idle" /\ result'[p].out = "ok") =>
               /\ schemaVersion' = SCHEMA_VERSION
               /\ IF schemaVersion = SCHEMA_VERSION
                  THEN result'[p].db = "current" /\ UNCHANGED ledgerVars
                  ELSE result'[p].db = "rebuilt"
       /\ nextIssueId' >= nextIssueId
       /\ \A i, j \in DOMAIN allocated' : i < j => allocated'[i] # allocated'[j]
       /\ \A row \in claims \ claims' :
             \E q \in Procs : pc[q] = "release_db" /\ cmd[q].id = row.issue_id
      ]_vars

\* a process has found the ledger rebuilt by the other one and left it as it
\* is, while the other one holds an identifier it allocated after its open
\* and has not yet written the record
C30_Witness ==
    \E p, q \in Procs :
        /\ p # q
        /\ result[p].op = "open" /\ result[p].db = "current"
        /\ pc[q] = "create_persist"
        /\ nextIssueId = 2
        /\ workdir = <<>>

\* C31: a successful open, and init's open_or_create, leave the stored schema
\* version equal to the expected one, whether the ledger was absent or of
\* another version; once equal it stays equal across every ledger operation.
C31_SchemaLifecycle ==
    [][/\ \A p \in Procs :
            (/\ result'[p] # result[p]
             /\ result'[p].op \in {"open", "repair"}
             /\ result'[p].out = "ok") => schemaVersion' = SCHEMA_VERSION
       /\ schemaVersion = SCHEMA_VERSION => schemaVersion' = SCHEMA_VERSION
      ]_vars

\* a ledger found absent or stale was rebuilt by an open, and a claim has
\* been made in it since
C31_Witness ==
    /\ schemaVersion = SCHEMA_VERSION
    /\ claims # {}
    /\ \E p \in Procs : result[p].op = "open" /\ result[p].db = "rebuilt"

\* C32: between commands run one after the other, every record has at most
\* one claim row, and a row (id, a) exists exactly when the record id on the
\* data branch has the assignee a.
C32_LedgerMatchesRecords ==
    (\A p \in Procs : pc[p] = "idle") =>
        /\ \A c, d \in claims : c.issue_id = d.issue_id => c = d
        /\ ClaimPairs(claims) = DataBranchAssignees(repo)

\* a record was created, claimed and released: no row, no assignee
C32_Witness ==
    /\ \A p \in Procs : pc[p] = "idle"
    /\ \E p \in Procs : result[p].op = "release" /\ result[p].out = "ok"
    /\ claims = {}
    /\ \E i \in BranchIssues(repo, DataBranch) :
          i.issue.status = "in-progress" /\ i.issue.assignee = None

C34_NoLostWrite ==
    [][\A p \in Procs :
         (pc[p] = "commit_write" /\ pc'[p] = "idle") =>
            IF result'[p].out = "ok"
            THEN LET old == TipTree(repo, DataBranch)
                     new == TipTree(repo', DataBranch)
                     c == repo'.commits[repo'.refs[DataBranch]]
                 IN  /\ repo'.refs[DataBranch] = result'[p].value
                     /\ result'[p].value = Len(repo.commits) + 1
                     /\ c.parents = IF repo.refs[DataBranch] = 0 THEN <<>>
                                    ELSE <<repo.refs[DataBranch]>>
                     /\ TreeGetPath(new, cmd[p].info.path).obj.text = cmd[p].body
                     /\ \A q \in Files(old) \ {cmd[p].info.path} :
                            TreeGetPath(new, q) = TreeGetPath(old, q)
            ELSE /\ result'[p].out = "Git"
                 /\ repo' = repo
                 /\ repo.refs[DataBranch] # cmd[p].id
      ]_vars

\* two calls read the same tip; the first one committed, the second one
\* returned an error and the branch holds the first one's commit
C34_Witness ==
    \E p, q \in Procs :
        /\ p # q
        /\ result[p].op = "write" /\ result[p].out = "ok" /\ result[p].value # 0
        /\ result[q].op = "write" /\ result[q].out = "Git"
        /\ result[q].id = result[p].id
        /\ repo.refs[DataBranch] = result[p].value

\* C35: whatever the interleaving of creates, rebuilds and repairs, the
\* counter next_issue_id never decreases and next_issue_id returns no
\* identifier twice.
C35_CounterMonotonic ==
    [][/\ nextIssueId' >= nextIssueId
       /\ \A i, j \in DOMAIN allocated' : i < j => allocated'[i] # allocated'[j]
      ]_vars

\* C36: while no release is run, when the ledger accepts a claim of an id,
\* no other process holds an accepted claim of that id for a different
\* assignee whose record it has yet to write, and the record on the data
\* branch has no different assignee.
C36_NoSecondHolder ==
    [][\A q \in Procs :
         (pc[q] = "claim_insert" /\ pc'[q] = "claim_persist") =>
            /\ \A p \in Procs \ {q} :
                  ~(/\ pc[p] = "claim_persist"
                    /\ cmd[p].id = cmd[q].id
                    /\ cmd[p].assignee # cmd[q].assignee)
            /\ \A pair \in DataBranchAssignees(repo) :
                  pair[1] = cmd[q].id => pair[2] = cmd[q].assignee
      ]_vars

\* C37: a record that is done on the data branch is still done there after
\* any claim or release command has written its version of it.
C37_DoneStaysDone ==
    [][\A p \in Procs :
         (pc[p] \in {"claim_persist", "release_persist"} /\ pc'[p] = "idle") =>
            \A a \in RecordsOf(repo, cmd[p].id) :
                a.issue.status = "done" =>
                    \A b \in RecordsOf(repo', cmd[p].id) : b.issue.status = "done"
      ]_vars

====
